---- MODULE Spec2Model ----
(***************************************************************************)
(* A model of the pickle-reactor virtual-DOM core:                         *)
(*   - the hook engine            (shared/state.py)                        *)
(*   - the string renderer        (server/ssr.py)                          *)
(*   - the mounter and the patcher (static/client_runtime.py)              *)
(* Each part has its own specification over the same variables; the        *)
(* variables a specification does not use keep their initial value.        *)
(***************************************************************************)
EXTENDS Integers, Sequences, FiniteSets, TLC

VARIABLES
    \* ---- hook engine (shared/state.py) ----
    inst_state,        \* instance -> its state list (ComponentInstance.state)
    hook_index,        \* instance -> ComponentInstance.hook_index
    schedule_update,   \* instance -> "none" | "mock" | "rerender"
    current_instance,  \* the module global _current_instance (None or an instance)
    frames,            \* stack of render_component calls in progress, innermost last
    setters,           \* the set_value closures handed out so far: <<instance, idx>>
    \* observations of the hook engine's calls
    rendered,          \* instance -> some render_component call on it has returned
    init_count,        \* instance -> slot -> times an initial value was computed
    written,           \* instance -> slot -> value last written by initialiser or setter
    last_ret,          \* when the last call was use_state: what it returned or raised
    set_calls,         \* instance -> setter calls made while a callback was registered
    cb_calls,          \* instance -> invocations of the schedule callback
    \* ---- string renderer (server/ssr.py) ----
    node,              \* the tree handed to render_to_string
    html,              \* its result, once rendered
    \* ---- client runtime (static/client_runtime.py) ----
    document,          \* js.document; its node ROOT is _root_element
    current_vdom,      \* the module global _current_vdom
    phase,             \* "empty" | "mounted" | "patched" | "failed": the runtime's last step
    session,           \* the module globals _current_component, _initial_props and
                       \* _root_instance, the render_component calls the runtime
                       \* has made and the number of setter calls by handlers
    \* ---- todo store (server/actions.py) ----
    store              \* the module globals _todos_db and _next_id, the response to
                       \* the last request and the ids create_todo has returned

hookVars == <<inst_state, hook_index, schedule_update, current_instance, frames,
              setters, rendered, init_count, written,
              last_ret, set_calls, cb_calls>>

ssrVars == <<node, html>>

domVars == <<document, current_vdom, phase>>

vars == <<hookVars, ssrVars, domVars, session, store>>

\* What an operation of one part leaves alone.
OnlyHooks == UNCHANGED <<ssrVars, domVars, session, store>>
OnlySsr == UNCHANGED <<hookVars, domVars, session, store>>
OnlyDom == UNCHANGED <<hookVars, ssrVars, session, store>>
OnlyStore == UNCHANGED <<hookVars, ssrVars, domVars, session>>

(***************************************************************************)
(* Bounds                                                                  *)
(***************************************************************************)
MaxHooks == 2      \* k of the root component (instance 1)
MaxDepth == 2      \* render_component calls nested at most this deep
MaxSets == 2       \* setter and callback calls are counted up to this

None == 0
Inst == {1, 2}
\* The values a state slot takes: what the counter test stores (0, then 1).
Values == {0, 1}
NoValue == 0 - 1

\* The component rendered on instance i calls use_state HookCount(i) times on
\* every render: the root component MaxHooks times, the counter component once.
HookCount(i) == IF i = 1 THEN MaxHooks ELSE 1

\* The argument of use_state: a plain value, or a zero-argument producer of it.
Initials == [producer : BOOLEAN, val : Values]

(***************************************************************************)
(* shared/state.py                                                         *)
(***************************************************************************)

\* initial() if callable(initial) else initial
InitialValue(initial) == initial.val

UseStateAlwaysInit(cur, st, hi, initial) ==
    IF cur = None
    THEN [raised |-> "RuntimeError", state |-> st, hook_index |-> hi,
          value |-> NoValue, idx |-> 0, evaluated |-> FALSE]
    ELSE LET idx == hi[cur]
             st1 == [st EXCEPT ![cur] = Append(@, InitialValue(initial))]
         IN  [raised |-> "none", state |-> st1,
              hook_index |-> [hi EXCEPT ![cur] = @ + 1],
              value |-> st1[cur][idx + 1], idx |-> idx, evaluated |-> TRUE]

UseStateDefaultInstance(cur, st, hi, initial) ==
    LET c == IF cur = None THEN 1 ELSE cur
        idx == hi[c]
        fresh == idx >= Len(st[c])
        st1 == IF fresh THEN [st EXCEPT ![c] = Append(@, InitialValue(initial))]
               ELSE st
    IN  [raised |-> "none", state |-> st1,
         hook_index |-> [hi EXCEPT ![c] = @ + 1],
         value |-> st1[c][idx + 1], idx |-> idx, evaluated |-> fresh]

UseStateReturnsInitial(cur, st, hi, initial) ==
    IF cur = None
    THEN [raised |-> "RuntimeError", state |-> st, hook_index |-> hi,
          value |-> NoValue, idx |-> 0, evaluated |-> FALSE]
    ELSE LET idx == hi[cur]
             fresh == idx >= Len(st[cur])
             st1 == IF fresh
                    THEN [st EXCEPT ![cur] = Append(@, InitialValue(initial))]
                    ELSE st
         IN  [raised |-> "none", state |-> st1,
              hook_index |-> [hi EXCEPT ![cur] = @ + 1],
              value |-> InitialValue(initial), idx |-> idx, evaluated |-> fresh]

\* use_state(initial) up to its return, given the module global `cur`, the state
\* lists `st` and the hook indexes `hi`.  `evaluated` tells whether the initial
\* value was computed (and the producer, if any, called).
use_state(cur, st, hi, initial) ==
    IF cur = None
    THEN [raised |-> "RuntimeError", state |-> st, hook_index |-> hi,
          value |-> NoValue, idx |-> 0, evaluated |-> FALSE]
    ELSE LET idx == hi[cur]
             fresh == idx >= Len(st[cur])
             st1 == IF fresh
                    THEN [st EXCEPT ![cur] = Append(@, InitialValue(initial))]
                    ELSE st
         IN  IF idx + 1 > Len(st1[cur])
             THEN [raised |-> "IndexError", state |-> st1, hook_index |-> hi,
                   value |-> NoValue, idx |-> idx, evaluated |-> fresh]
             ELSE [raised |-> "none", state |-> st1,
                   hook_index |-> [hi EXCEPT ![cur] = @ + 1],
                   value |-> st1[cur][idx + 1], idx |-> idx, evaluated |-> fresh]

SetValueDirtyCheck(st, su, inst, idx, new) ==
    [state |-> [st EXCEPT ![inst][idx + 1] = new],
     callback |-> su[inst] # "none" /\ st[inst][idx + 1] # new]

SetValueAlwaysCallback(st, su, inst, idx, new) ==
    [state |-> [st EXCEPT ![inst][idx + 1] = new], callback |-> TRUE]

\* set_value(new) of the closure bound to (inst, idx): the slot is overwritten,
\* then the schedule callback is invoked when one is registered.
set_value(st, su, inst, idx, new) ==
    [state |-> [st EXCEPT ![inst][idx + 1] = new],
     callback |-> su[inst] # "none"]

NoReturn == [inst |-> None, idx |-> 0, value |-> NoValue, raised |-> "none"]

\* Calls are counted up to MaxSets.
Count(n) == IF n < MaxSets THEN n + 1 ELSE n

\* The frame of a render_component call: the instance it was given and the
\* number of use_state calls its component body has made so far.
Frame(i) == [inst |-> i, calls |-> 0]

Top == frames[Len(frames)]

Pop(s) == SubSeq(s, 1, Len(s) - 1)

\* render_component, line 154: _current_instance = None
ClearInstance(cur) == None

RenderStartNoReset(i) ==
    /\ OnlyHooks
    /\ Len(frames) < MaxDepth
    /\ current_instance' = i
    /\ frames' = Append(frames, Frame(i))
    /\ last_ret' = NoReturn
    /\ UNCHANGED <<inst_state, hook_index, schedule_update, setters, rendered,
                   init_count, written, set_calls, cb_calls>>

\* render_component up to the call of component_fn: the global is set to the
\* instance and its hook index reset.  Called from outside any render or from a
\* component body (a nested render).
RenderStart(i) ==
    /\ OnlyHooks
    /\ Len(frames) < MaxDepth
    /\ current_instance' = i
    /\ hook_index' = [hook_index EXCEPT ![i] = 0]
    /\ frames' = Append(frames, Frame(i))
    /\ last_ret' = NoReturn
    /\ UNCHANGED <<inst_state, schedule_update, setters, rendered,
                   init_count, written, set_calls, cb_calls>>

\* One use_state call, made by the body of the innermost render in progress, or
\* from outside any render when none is in progress.  An exception is caught
\* nowhere: it ends every render in progress and leaves the global as it is.
CallUseState(initial) ==
    /\ OnlyHooks
    /\ \/ /\ frames = <<>>
          /\ current_instance # None => hook_index[current_instance] < MaxHooks
       \/ frames # <<>> /\ Top.calls < HookCount(Top.inst)
    /\ LET r == use_state(current_instance, inst_state, hook_index, initial)
           i == current_instance
       IN  /\ inst_state' = r.state
           /\ hook_index' = r.hook_index
           /\ IF r.raised # "none"
              THEN /\ frames' = <<>>
                   /\ last_ret' = [inst |-> None, idx |-> 0, value |-> NoValue,
                                   raised |-> r.raised]
                   /\ UNCHANGED <<setters, init_count, written>>
              ELSE /\ frames' = IF frames = <<>> THEN frames
                                ELSE [frames EXCEPT ![Len(frames)].calls = @ + 1]
                   /\ setters' = setters \cup {<<i, r.idx>>}
                   /\ last_ret' = [inst |-> i, idx |-> r.idx, value |-> r.value, raised |-> "none"]
                   /\ init_count' = IF r.evaluated
                                    THEN [init_count EXCEPT ![i][r.idx + 1] = @ + 1]
                                    ELSE init_count
                   /\ written' = IF r.evaluated
                                 THEN [written EXCEPT ![i][r.idx + 1] = InitialValue(initial)]
                                 ELSE written
    /\ UNCHANGED <<schedule_update, current_instance, rendered, set_calls, cb_calls>>

\* A setter obtained from an earlier use_state call is invoked, from an event
\* handler or from a component body.  A "mock" callback only records the call;
\* the "rerender" callback is the client's schedule_update, which starts
\* render_component on the same instance before set_value returns.
CallSetter(i, idx, new) ==
    /\ OnlyHooks
    /\ <<i, idx>> \in setters
    /\ schedule_update[i] = "rerender" => Len(frames) < MaxDepth
    /\ LET r == set_value(inst_state, schedule_update, i, idx, new)
       IN  /\ inst_state' = r.state
           /\ written' = [written EXCEPT ![i][idx + 1] = new]
           /\ set_calls' = IF schedule_update[i] # "none"
                           THEN [set_calls EXCEPT ![i] = Count(@)] ELSE set_calls
           /\ cb_calls' = IF r.callback THEN [cb_calls EXCEPT ![i] = Count(@)]
                          ELSE cb_calls
           /\ IF r.callback /\ schedule_update[i] = "rerender"
              THEN /\ current_instance' = i
                   /\ hook_index' = [hook_index EXCEPT ![i] = 0]
                   /\ frames' = Append(frames, Frame(i))
              ELSE UNCHANGED <<current_instance, hook_index, frames>>
    /\ last_ret' = NoReturn
    /\ UNCHANGED <<schedule_update, setters, rendered, init_count>>

\* The component body of the innermost render returns its tree after its last
\* hook call; render_component clears the global and returns.
RenderReturn ==
    /\ OnlyHooks
    /\ frames # <<>>
    /\ Top.calls = HookCount(Top.inst)
    /\ current_instance' = ClearInstance(current_instance)
    /\ frames' = Pop(frames)
    /\ rendered' = [rendered EXCEPT ![Top.inst] = TRUE]
    /\ last_ret' = NoReturn
    /\ UNCHANGED <<inst_state, hook_index, schedule_update, setters,
                   init_count, written, set_calls, cb_calls>>

\* The runtime registers a schedule callback on the root instance (hydrate wires
\* rerender; a test registers a recording callback).  Instance 2 is rendered
\* server-side style: it never gets a callback.
RegisterCallback(i, kind) ==
    /\ OnlyHooks
    /\ frames = <<>>
    /\ schedule_update[i] = "none"
    /\ schedule_update' = [schedule_update EXCEPT ![i] = kind]
    /\ last_ret' = NoReturn
    /\ UNCHANGED <<inst_state, hook_index, current_instance, frames, setters,
                   rendered, init_count, written, set_calls, cb_calls>>

\* ComponentInstance.__init__ for every instance, and the module global.
HookInit ==
    /\ inst_state = [i \in Inst |-> <<>>]
    /\ hook_index = [i \in Inst |-> 0]
    /\ schedule_update = [i \in Inst |-> "none"]
    /\ current_instance = None
    /\ frames = <<>>
    /\ setters = {}
    /\ rendered = [i \in Inst |-> FALSE]
    /\ init_count = [i \in Inst |-> [s \in 1 .. MaxHooks |-> 0]]
    /\ written = [i \in Inst |-> [s \in 1 .. MaxHooks |-> NoValue]]
    /\ last_ret = NoReturn
    /\ set_calls = [i \in Inst |-> 0]
    /\ cb_calls = [i \in Inst |-> 0]

HookNext ==
    \/ \E i \in Inst : RenderStart(i)
    \/ \E initial \in Initials : CallUseState(initial)
    \/ \E i \in Inst, idx \in 0 .. MaxHooks, new \in Values : CallSetter(i, idx, new)
    \/ RenderReturn
    \/ \E kind \in {"mock", "rerender"} : RegisterCallback(1, kind)

\* The hook engine where no runtime wires a schedule callback: server-side
\* rendering, and the client before hydrate has registered rerender.
HookNextServer ==
    \/ \E i \in Inst : RenderStart(i)
    \/ \E initial \in Initials : CallUseState(initial)
    \/ \E i \in Inst, idx \in 0 .. MaxHooks, new \in Values : CallSetter(i, idx, new)
    \/ RenderReturn

\* The component body of the innermost render raises an exception of its own
\* (any callable may).  render_component has no try/finally and no caller
\* in between catches: every render in progress ends, and line 154 of the
\* render_component calls in progress is never reached.
ComponentRaises ==
    /\ OnlyHooks
    /\ frames # <<>>
    /\ frames' = <<>>
    /\ last_ret' = NoReturn
    /\ UNCHANGED <<inst_state, hook_index, schedule_update, current_instance,
                   setters, rendered, init_count, written, set_calls, cb_calls>>

\* The hook engine with component bodies that may raise.
HookNextRaising ==
    \/ \E i \in Inst : RenderStart(i)
    \/ \E initial \in Initials : CallUseState(initial)
    \/ \E i \in Inst, idx \in 0 .. MaxHooks, new \in Values : CallSetter(i, idx, new)
    \/ RenderReturn
    \/ ComponentRaises


(***************************************************************************)
(* shared/vdom.py: the tree                                                *)
(***************************************************************************)

\* Strings (tags, attribute names, text, markup) are sequences of characters.
\* A text child is a str; an element is a VNode.

\* key: Optional[str] = None
NoKey == [some |-> FALSE, k |-> <<>>]

Text(s) == [kind |-> "text", text |-> s]

\* VNode(tag, props, children, key, _el); props is the ordered mapping, a
\* sequence of <<name, value>> pairs with distinct names.
VNode(tag, props, children) ==
    [kind |-> "node", tag |-> tag, props |-> props, children |-> children,
     key |-> NoKey, el |-> None]

\* VNode(tag, props, children, key=k): only the constructor sets a key, h() never does.
Keyed(tag, props, children, k) ==
    [kind |-> "node", tag |-> tag, props |-> props, children |-> children,
     key |-> [some |-> TRUE, k |-> k], el |-> None]

\* A child that is None.
Absent == [kind |-> "none"]

\* isinstance(x, str)
IsStr(x) == x.kind = "text"

\* Attribute values: str, int, bool, None, a callable.
StrVal(s) == [t |-> "str", v |-> s]
IntVal(n) == [t |-> "int", v |-> n]
BoolVal(b) == [t |-> "bool", v |-> b]
NoneVal == [t |-> "none", v |-> None]
Handler(f) == [t |-> "handler", v |-> f]
\* a style dict: a sequence of <<property, value>> pairs
StyleVal(d) == [t |-> "style", v |-> d]

(***************************************************************************)
(* server/ssr.py                                                           *)
(***************************************************************************)

RECURSIVE Replace(_, _, _)
\* str.replace(c, r) for a one-character c
Replace(s, c, r) ==
    IF s = <<>> THEN <<>>
    ELSE (IF Head(s) = c THEN r ELSE <<Head(s)>>) \o Replace(Tail(s), c, r)

AMP == <<"&", "a", "m", "p", ";">>
LT == <<"&", "l", "t", ";">>
GT == <<"&", "g", "t", ";">>
QUOT == <<"&", "q", "u", "o", "t", ";">>
APOS == <<"&", "#", "x", "2", "7", ";">>

EscNoQuote(s) ==
    Replace(Replace(Replace(s, "&", AMP), "<", LT), ">", GT)

\* html.escape(s) with its default quote=True: & first, then < > " '
esc(s) ==
    Replace(Replace(Replace(Replace(Replace(s, "&", AMP), "<", LT), ">", GT),
                    "\"", QUOT), "'", APOS)

Digits == <<"0", "1", "2", "3", "4", "5", "6", "7", "8", "9">>

RECURSIVE StyleRepr(_)
\* the items of str(dict): 'k': 'v', 'k': 'v'
StyleRepr(d) ==
    IF d = <<>> THEN <<>>
    ELSE <<"'">> \o Head(d)[1] \o <<"'", ":", " ", "'">> \o Head(d)[2] \o <<"'">>
         \o (IF Len(d) > 1 THEN <<",", " ">> ELSE <<>>) \o StyleRepr(Tail(d))

\* str(v)
Str(val) ==
    CASE val.t = "str" -> val.v
      [] val.t = "int" -> <<Digits[val.v + 1]>>
      [] val.t = "bool" -> IF val.v THEN <<"T", "r", "u", "e">>
                           ELSE <<"F", "a", "l", "s", "e">>
      [] val.t = "none" -> <<"N", "o", "n", "e">>
      [] val.t = "handler" -> <<"<", "f", ">">>
      [] val.t = "style" -> <<"{">> \o StyleRepr(val.v) \o <<"}">>

\* k.startswith("on_")
StartsWithOn(k) == Len(k) >= 3 /\ SubSeq(k, 1, 3) = <<"o", "n", "_">>

AttrPartOmitFalsy(k, val) ==
    IF StartsWithOn(k) THEN <<>>
    ELSE IF val.t = "bool" /\ val.v = TRUE THEN <<k>>
    ELSE IF (val.t = "bool" /\ val.v = FALSE) \/ val.t = "none"
            \/ (val.t = "int" /\ val.v = 0) \/ (val.t = "str" /\ val.v = <<>>)
         THEN <<>>
    ELSE <<k \o <<"=", "\"">> \o esc(Str(val)) \o <<"\"">>>>

\* One turn of the loop over props.items(): what it appends to attr_parts
\* (a sequence of zero or one parts).
attr_part(k, val) ==
    IF StartsWithOn(k) THEN <<>>
    ELSE IF val.t = "bool" /\ val.v = TRUE THEN <<k>>
    ELSE IF (val.t = "bool" /\ val.v = FALSE) \/ val.t = "none" THEN <<>>
    ELSE <<k \o <<"=", "\"">> \o esc(Str(val)) \o <<"\"">>>>

RECURSIVE attr_parts(_)
attr_parts(props) ==
    IF props = <<>> THEN <<>>
    ELSE attr_part(Head(props)[1], Head(props)[2]) \o attr_parts(Tail(props))

RECURSIVE Join(_, _)
\* sep.join(parts)
Join(sep, parts) ==
    IF parts = <<>> THEN <<>>
    ELSE IF Len(parts) = 1 THEN parts[1]
    ELSE parts[1] \o sep \o Join(sep, Tail(parts))

RECURSIVE render_to_string(_)
RECURSIVE render_children(_)
\* "".join(render_to_string(c) for c in children)
render_children(children) ==
    IF children = <<>> THEN <<>>
    ELSE render_to_string(Head(children)) \o render_children(Tail(children))

VoidTags == {<<"i", "n", "p", "u", "t">>, <<"i", "m", "g">>, <<"b", "r">>}

RenderVoidUnclosed(n) ==
    IF IsStr(n) THEN esc(n.text)
    ELSE LET parts == attr_parts(n.props)
             attrs == IF parts # <<>> THEN <<" ">> \o Join(<<" ">>, parts) ELSE <<>>
             inner == render_children(n.children)
         IN  IF n.tag \in VoidTags THEN <<"<">> \o n.tag \o attrs \o <<">">>
             ELSE <<"<">> \o n.tag \o attrs \o <<">">> \o inner
                      \o <<"<", "/">> \o n.tag \o <<">">>

render_to_string(n) ==
    IF IsStr(n) THEN esc(n.text)
    ELSE LET parts == attr_parts(n.props)
             attrs == IF parts # <<>> THEN <<" ">> \o Join(<<" ">>, parts) ELSE <<>>
             inner == render_children(n.children)
         IN  <<"<">> \o n.tag \o attrs \o <<">">> \o inner
                 \o <<"<", "/">> \o n.tag \o <<">">>

NoHtml == [done |-> FALSE, out |-> <<>>, raised |-> "none"]

RECURSIVE raises(_)
\* render_to_string reads node.tag of everything that is not a str: a child
\* that is None raises AttributeError, wherever in the tree it is.
raises(n) ==
    IF IsStr(n) THEN FALSE
    ELSE IF n.kind = "none" THEN TRUE
    ELSE \E i \in 1 .. Len(n.children) : raises(n.children[i])

\* What the caller of render_to_string(n) gets: the markup, or the exception.
Markup(n) ==
    IF raises(n) THEN [done |-> FALSE, out |-> <<>>, raised |-> "AttributeError"]
    ELSE [done |-> TRUE, out |-> render_to_string(n), raised |-> "none"]

\* The server calls render_to_string on the tree a component returned.
SsrRender ==
    /\ OnlySsr
    /\ ~html.done
    /\ html' = Markup(node)
    /\ UNCHANGED node

(***************************************************************************)
(* Trees handed to the renderer                                            *)
(***************************************************************************)
MaxSsrDepth == 2   \* elements nested at most this deep
MaxAttrs == 2      \* attributes per element in the attribute-map inputs

DIV == <<"d", "i", "v">>
SPAN == <<"s", "p", "a", "n">>
ID == <<"i", "d">>
CLASS == <<"c", "l", "a", "s", "s">>
DISABLED == <<"d", "i", "s">>
ON_CLICK == <<"o", "n", "_", "c">>
ONC == <<"o", "n", "c">>

SpecialChars == {"&", "<", ">", "\"", "'"}

\* Text leaves: empty, one special character, and a mix with a plain one.
SsrTexts ==
    {<<>>, <<">">>, <<"\"">>, <<"<", "&", "\"", "a">>}

\* The depth of a tree: a text is 0.
RECURSIVE Depth(_)
RECURSIVE DepthOfAll(_)
DepthOfAll(children) ==
    IF children = <<>> THEN 0
    ELSE LET d == Depth(Head(children))
             r == DepthOfAll(Tail(children))
         IN  IF d > r THEN d ELSE r

Depth(n) == IF IsStr(n) THEN 0 ELSE 1 + DepthOfAll(n.children)

\* h(tag, props, *children) around the tree built so far: a component wraps
\* it in an element with at most one string attribute and an optional text
\* sibling before or after it.
SsrWrap(tag, props, before, after) ==
    /\ OnlySsr
    /\ ~html.done
    /\ Depth(node) < MaxSsrDepth
    /\ node' = VNode(tag, props, before \o <<node>> \o after)
    /\ UNCHANGED html

SsrWrapProps ==
    {<<>>} \cup {<<<<ID, StrVal(t)>>>> : t \in {<<"\"">>, <<"<", "&", "a", "'", ">">>}}

\* Nested trees: a text leaf, wrapped step by step.
SsrInit ==
    /\ node \in {Text(t) : t \in SsrTexts}
    /\ html = NoHtml

SsrNext ==
    \/ \E props \in SsrWrapProps, a \in {<<>>, <<Text(<<"<">>)>>} :
           SsrWrap(DIV, props, <<>>, a)
    \/ \E props \in SsrWrapProps : SsrWrap(SPAN, props, <<Text(<<"'", "&">>)>>, <<>>)
    \/ SsrRender

\* Attribute maps: one element with up to MaxAttrs attributes of every kind
\* of value, and a text child.
AttrNames == {ID, CLASS, DISABLED, ON_CLICK, ONC}

AttrValues ==
    {BoolVal(TRUE), BoolVal(FALSE), NoneVal, IntVal(0), IntVal(7), Handler(1),
     StrVal(<<>>), StrVal(<<"\"", "<">>)}

RECURSIVE PropSeqs(_)
\* Ordered attribute maps of exactly n attributes with distinct names.
PropSeqs(n) ==
    IF n = 0 THEN {<<>>}
    ELSE {Append(p, <<k, val>>) :
             p \in PropSeqs(n - 1),
             k \in {k \in AttrNames : TRUE}, val \in AttrValues}

DistinctNames(p) == \A i, j \in 1 .. Len(p) : i # j => p[i][1] # p[j][1]

AttrMaps ==
    UNION {{p \in PropSeqs(n) : DistinctNames(p)} : n \in 0 .. MaxAttrs}

AttrInit ==
    /\ node \in {VNode(DIV, p, <<Text(<<"a", "&">>)>>) : p \in AttrMaps}
    /\ html = NoHtml

AttrNext == SsrRender

\* Elements of every tag, void tags included: input, img and br built by
\* their helpers or by h(), with attributes and with children.
INPUT == <<"i", "n", "p", "u", "t">>
IMG == <<"i", "m", "g">>
BR == <<"b", "r">>
HELLO == <<"H", "e", "l", "l", "o">>
VX == <<"x">>

TagEntries ==
    {<<CLASS, StrVal(VX)>>, <<ID, StrVal(<<"a">>)>>, <<DISABLED, BoolVal(TRUE)>>,
     <<DISABLED, BoolVal(FALSE)>>, <<ON_CLICK, Handler(1)>>}

TagProps ==
    {<<>>} \cup {<<e>> : e \in TagEntries}
           \cup {q \in {<<e, f>> : e \in TagEntries, f \in TagEntries} :
                     q[1][1] # q[2][1]}

TagKids ==
    {Text(HELLO), Text(<<"<">>), VNode(BR, <<>>, <<>>),
     VNode(SPAN, <<<<ID, StrVal(<<"a">>)>>>>, <<Text(HELLO)>>)}

TagChildren ==
    {<<>>} \cup {<<k>> : k \in TagKids} \cup {<<k, l>> : k \in TagKids, l \in TagKids}

TagInit ==
    /\ node \in {VNode(tag, ps, ks) :
                    tag \in {DIV, INPUT, IMG, BR}, ps \in TagProps, ks \in TagChildren}
    /\ html = NoHtml

TagNext == SsrRender

(***************************************************************************)
(* The browser document behind js.document (static/client_runtime.py)      *)
(***************************************************************************)

\* A host node: an element or a text node.  Host nodes are numbered in the
\* order they are created; #root is host 1.
Host(kind, tag, text) ==
    [kind |-> kind, tag |-> tag, text |-> text, kids |-> <<>>, parent |-> None,
     attrs |-> <<>>, cls |-> <<>>, style |-> <<>>, listeners |-> <<>>]

ROOT == 1

\* One call into the document, as it is logged.
Op(op, id, arg, name, val) ==
    [op |-> op, id |-> id, arg |-> arg, name |-> name, val |-> val]

\* The document: every host node created so far, the exception that is
\* propagating (an exception is caught nowhere in the runtime, so every later
\* step of the call is skipped), and the log of calls.
EmptyDocument ==
    [nodes |-> <<Host("el", <<"r", "o", "o", "t">>, <<>>)>>, err |-> "none", log |-> <<>>]

Fail(dom, e) == [dom EXCEPT !.err = e]

Logged(dom, entry) == [dom EXCEPT !.log = Append(@, entry)]

LastId(dom) == Len(dom.nodes)

\* parent.childNodes
childNodes(dom, id) == dom.nodes[id].kids

\* A sequence without its element x.
Without(seq, x) == SelectSeq(seq, LAMBDA y : y # x)

\* seq with x put in front of the element ref.
RECURSIVE InsertAt(_, _, _)
InsertAt(seq, x, ref) ==
    IF seq = <<>> THEN <<x>>
    ELSE IF Head(seq) = ref THEN <<x>> \o seq
    ELSE <<Head(seq)>> \o InsertAt(Tail(seq), x, ref)

\* The node leaves its parent, if it has one.
Detach(dom, id) ==
    LET par == dom.nodes[id].parent
    IN  IF par = None THEN dom
        ELSE [dom EXCEPT !.nodes[par].kids = Without(@, id),
                         !.nodes[id].parent = None]

\* js.document.createElement(tag); the new element is LastId of the result.
createElement(dom, tag) ==
    IF dom.err # "none" THEN dom
    ELSE LET d == [dom EXCEPT !.nodes = Append(@, Host("el", tag, <<>>))]
         IN  Logged(d, Op("createElement", LastId(d), None, tag, <<>>))

\* js.document.createTextNode(text)
createTextNode(dom, text) ==
    IF dom.err # "none" THEN dom
    ELSE LET d == [dom EXCEPT !.nodes = Append(@, Host("text", <<>>, text))]
         IN  Logged(d, Op("createTextNode", LastId(d), None, <<>>, text))

\* parent.appendChild(node): the node is moved to the end of parent's children.
appendChild(dom, par, id) ==
    IF dom.err # "none" THEN dom
    ELSE IF par = None \/ id = None THEN Fail(dom, "AttributeError")
    ELSE LET d == Detach(dom, id)
         IN  Logged([d EXCEPT !.nodes[par].kids = Append(@, id),
                              !.nodes[id].parent = par],
                    Op("appendChild", par, id, <<>>, <<>>))

\* The sibling after id under its parent, or None.
NextSibling(dom, id) ==
    LET par == dom.nodes[id].parent
        ks == IF par = None THEN <<>> ELSE dom.nodes[par].kids
        at == {i \in 1 .. Len(ks) : ks[i] = id}
    IN  IF at = {} THEN None
        ELSE LET i == CHOOSE i \in at : TRUE
             IN  IF i < Len(ks) THEN ks[i + 1] ELSE None

\* parent.insertBefore(node, ref): the node is taken out of where it is and
\* put in front of ref; a ref that is the node itself means its next sibling,
\* no ref means the end.
insertBefore(dom, par, id, ref) ==
    IF dom.err # "none" THEN dom
    ELSE IF par = None \/ id = None THEN Fail(dom, "AttributeError")
    ELSE LET r == IF ref = id THEN NextSibling(dom, id) ELSE ref
             d == Detach(dom, id)
         IN  Logged([d EXCEPT !.nodes[par].kids =
                                  IF r = None THEN Append(@, id) ELSE InsertAt(@, id, r),
                              !.nodes[id].parent = par],
                    Op("insertBefore", par, id, <<>>, <<>>))

\* parent.removeChild(node)
removeChild(dom, par, id) ==
    IF dom.err # "none" THEN dom
    ELSE Logged(Detach(dom, id), Op("removeChild", par, id, <<>>, <<>>))

\* element.remove()
remove(dom, id) ==
    IF dom.err # "none" THEN dom
    ELSE Logged(Detach(dom, id), Op("remove", id, None, <<>>, <<>>))

\* A mapping with key k set to v, and without key k.
MapSet(m, k, v) == [x \in DOMAIN m \cup {k} |-> IF x = k THEN v ELSE m[x]]
MapDel(m, k) == [x \in DOMAIN m \ {k} |-> m[x]]

\* element.setAttribute(k, s)
setAttribute(dom, id, k, s) ==
    IF dom.err # "none" THEN dom
    ELSE IF id = None THEN Fail(dom, "AttributeError")
    ELSE Logged([dom EXCEPT !.nodes[id].attrs = MapSet(@, k, s)],
                Op("setAttribute", id, None, k, s))

\* element.removeAttribute(k)
removeAttribute(dom, id, k) ==
    IF dom.err # "none" THEN dom
    ELSE IF id = None THEN Fail(dom, "AttributeError")
    ELSE Logged([dom EXCEPT !.nodes[id].attrs = MapDel(@, k)],
                Op("removeAttribute", id, None, k, <<>>))

\* element.className = s
setClassName(dom, id, s) ==
    IF dom.err # "none" THEN dom
    ELSE IF id = None THEN Fail(dom, "AttributeError")
    ELSE Logged([dom EXCEPT !.nodes[id].cls = s], Op("className", id, None, <<>>, s))

\* element.style[k] = s; the empty string removes the property.
setStyle(dom, id, k, s) ==
    IF dom.err # "none" THEN dom
    ELSE IF id = None THEN Fail(dom, "AttributeError")
    ELSE Logged([dom EXCEPT !.nodes[id].style =
                                IF s = <<>> THEN MapDel(@, k) ELSE MapSet(@, k, s)],
                Op("style", id, None, k, s))

\* element.addEventListener(event, create_proxy(handler))
addEventListener(dom, id, event, handler) ==
    IF dom.err # "none" THEN dom
    ELSE IF id = None THEN Fail(dom, "AttributeError")
    ELSE Logged([dom EXCEPT !.nodes[id].listeners = Append(@, <<event, handler>>)],
                Op("addEventListener", id, handler, event, <<>>))

RECURSIVE DetachAll(_, _)
DetachAll(dom, ids) ==
    IF ids = <<>> THEN dom ELSE DetachAll(Detach(dom, Head(ids)), Tail(ids))

\* node.textContent = s: a text node gets the new data; an element loses its
\* children and, for a non-empty s, gets one new text node.
setTextContent(dom, id, s) ==
    IF dom.err # "none" THEN dom
    ELSE IF dom.nodes[id].kind = "text"
    THEN Logged([dom EXCEPT !.nodes[id].text = s], Op("textContent", id, None, <<>>, s))
    ELSE LET d0 == DetachAll(dom, dom.nodes[id].kids)
             d1 == IF s = <<>> THEN d0
                   ELSE LET d == [d0 EXCEPT !.nodes = Append(@, Host("text", <<>>, s))]
                        IN  [d EXCEPT !.nodes[id].kids = <<LastId(d)>>,
                                      !.nodes[LastId(d)].parent = id]
         IN  Logged(d1, Op("textContent", id, None, <<>>, s))

(***************************************************************************)
(* static/client_runtime.py: mount                                         *)
(***************************************************************************)
STYLE == <<"s", "t", "y", "l", "e">>

\* A call's result: the document after it and the tree (or child list) with
\* the host references the call has set.
R(dom, v) == [dom |-> dom, v |-> v]

\* callable(v)
Callable(val) == val.t = "handler"

\* k[len("on_"):]
EventName(k) == SubSeq(k, 4, Len(k))

RECURSIVE set_styles(_, _, _)
\* for sk, sv in v.items(): el.style[sk] = sv
set_styles(dom, el, d) ==
    IF d = <<>> THEN dom
    ELSE set_styles(setStyle(dom, el, Head(d)[1], Head(d)[2]), el, Tail(d))

\* One turn of mount's loop over the props.
mount_prop(dom, el, k, val) ==
    IF StartsWithOn(k) /\ Callable(val) THEN addEventListener(dom, el, EventName(k), val.v)
    ELSE IF k = CLASS THEN setClassName(dom, el, Str(val))
    ELSE IF k = STYLE /\ val.t = "style" THEN set_styles(dom, el, val.v)
    ELSE setAttribute(dom, el, k, Str(val))

RECURSIVE mount_props(_, _, _)
mount_props(dom, el, props) ==
    IF props = <<>> THEN dom
    ELSE mount_props(mount_prop(dom, el, Head(props)[1], Head(props)[2]), el, Tail(props))

MountChildrenSkip(dom, el, children, done) == R(dom, children)

RECURSIVE mount(_, _, _)
RECURSIVE mount_children(_, _, _, _)
\* for child in vnode.children: mount(el, child); done are the children
\* already mounted.
mount_children(dom, el, children, done) ==
    IF children = <<>> THEN R(dom, done)
    ELSE LET r == mount(dom, el, Head(children))
         IN  mount_children(r.dom, el, Tail(children), Append(done, r.v))

\* mount(parent, vnode)
mount(dom, parent, vnode) ==
    IF dom.err # "none" THEN R(dom, vnode)
    ELSE IF IsStr(vnode)
    THEN LET d == createTextNode(dom, vnode.text)
         IN  R(appendChild(d, parent, LastId(d)), vnode)
    ELSE IF vnode.kind = "none" THEN R(Fail(dom, "AttributeError"), vnode)
    ELSE LET d1 == createElement(dom, vnode.tag)
             el == LastId(d1)
             d2 == mount_props(d1, el, vnode.props)
             r == mount_children(d2, el, vnode.children, <<>>)
         IN  R(appendChild(r.dom, parent, el),
               [vnode EXCEPT !.el = el, !.children = r.v])

(***************************************************************************)
(* static/client_runtime.py: remove_node, move_node                        *)
(***************************************************************************)

RemoveNodeByIndex(dom, parent, vnode, index) ==
    IF dom.err # "none" \/ parent = None THEN dom
    ELSE IF index < Len(childNodes(dom, parent))
    THEN removeChild(dom, parent, childNodes(dom, parent)[index + 1])
    ELSE dom

\* remove_node(parent, vnode, index)
remove_node(dom, parent, vnode, index) ==
    IF dom.err # "none" THEN dom
    ELSE IF IsStr(vnode)
    THEN IF parent = None THEN Fail(dom, "AttributeError")
         ELSE IF index < Len(childNodes(dom, parent))
         THEN removeChild(dom, parent, childNodes(dom, parent)[index + 1])
         ELSE dom
    ELSE IF vnode.kind = "node" /\ vnode.el # None THEN remove(dom, vnode.el)
    ELSE dom

\* move_node(parent, element, new_index)
move_node(dom, parent, element, new_index) ==
    IF dom.err # "none" THEN dom
    ELSE IF parent = None THEN Fail(dom, "AttributeError")
    ELSE LET children == childNodes(dom, parent)
         IN  IF new_index >= Len(children) THEN appendChild(dom, parent, element)
             ELSE insertBefore(dom, parent, element, children[new_index + 1])

(***************************************************************************)
(* static/client_runtime.py: patch_props                                   *)
(***************************************************************************)

\* key in props
HasKey(props, k) == \E i \in 1 .. Len(props) : props[i][1] = k

\* props.get(k): None when the key is absent
Get(props, k) ==
    IF HasKey(props, k)
    THEN props[CHOOSE i \in 1 .. Len(props) : props[i][1] = k][2]
    ELSE NoneVal

\* Python's ==: values of one type compare by value (a callable only equals
\* itself, dicts compare as mappings); True == 1 and False == 0.
PyEq(a, b) ==
    IF a.t = b.t
    THEN IF a.t = "style"
         THEN {a.v[i] : i \in 1 .. Len(a.v)} = {b.v[i] : i \in 1 .. Len(b.v)}
         ELSE a.v = b.v
    ELSE IF a.t = "bool" /\ b.t = "int" THEN (IF a.v THEN 1 ELSE 0) = b.v
    ELSE IF a.t = "int" /\ b.t = "bool" THEN a.v = (IF b.v THEN 1 ELSE 0)
    ELSE FALSE

\* (d if isinstance(d, dict) else {})
AsDict(val) == IF val.t = "style" THEN val.v ELSE <<>>

RECURSIVE clear_styles(_, _, _)
\* for style_key in d: element.style[style_key] = ''
clear_styles(dom, el, d) ==
    IF d = <<>> THEN dom
    ELSE clear_styles(setStyle(dom, el, Head(d)[1], <<>>), el, Tail(d))

RECURSIVE clear_dropped_styles(_, _, _, _)
\* for style_key in old_style: if style_key not in value: element.style[style_key] = ''
clear_dropped_styles(dom, el, old_style, value) ==
    IF old_style = <<>> THEN dom
    ELSE clear_dropped_styles(
             IF HasKey(value, Head(old_style)[1]) THEN dom
             ELSE setStyle(dom, el, Head(old_style)[1], <<>>),
             el, Tail(old_style), value)

\* One turn of the first loop: an old prop that is not in the new props.
remove_old_prop(dom, el, k, old_props, new_props) ==
    IF HasKey(new_props, k) THEN dom
    ELSE IF StartsWithOn(k) THEN dom
    ELSE IF k = CLASS THEN setClassName(dom, el, <<>>)
    ELSE IF k = STYLE THEN clear_styles(dom, el, AsDict(Get(old_props, k)))
    ELSE removeAttribute(dom, el, k)

RECURSIVE remove_old_props(_, _, _, _, _)
remove_old_props(dom, el, rest, old_props, new_props) ==
    IF rest = <<>> THEN dom
    ELSE remove_old_props(remove_old_prop(dom, el, Head(rest)[1], old_props, new_props),
                          el, Tail(rest), old_props, new_props)

UpdatePropSkipsHandlers(dom, el, k, value, old_props) ==
    IF PyEq(Get(old_props, k), value) THEN dom
    ELSE IF StartsWithOn(k) /\ Callable(value) THEN dom
    ELSE IF k = CLASS THEN setClassName(dom, el, Str(value))
    ELSE IF k = STYLE /\ value.t = "style"
    THEN set_styles(clear_dropped_styles(dom, el, AsDict(Get(old_props, STYLE)), value.v),
                    el, value.v)
    ELSE setAttribute(dom, el, k, Str(value))

\* One turn of the second loop: a new prop.
update_prop(dom, el, k, value, old_props) ==
    IF PyEq(Get(old_props, k), value) THEN dom
    ELSE IF StartsWithOn(k) /\ Callable(value)
    THEN addEventListener(dom, el, EventName(k), value.v)
    ELSE IF k = CLASS THEN setClassName(dom, el, Str(value))
    ELSE IF k = STYLE /\ value.t = "style"
    THEN set_styles(clear_dropped_styles(dom, el, AsDict(Get(old_props, STYLE)), value.v),
                    el, value.v)
    ELSE setAttribute(dom, el, k, Str(value))

RECURSIVE update_props(_, _, _, _)
update_props(dom, el, rest, old_props) ==
    IF rest = <<>> THEN dom
    ELSE update_props(update_prop(dom, el, Head(rest)[1], Head(rest)[2], old_props),
                      el, Tail(rest), old_props)

\* patch_props(element, old_props, new_props)
patch_props(dom, element, old_props, new_props) ==
    update_props(remove_old_props(dom, element, old_props, old_props, new_props),
                 element, new_props, old_props)

(***************************************************************************)
(* static/client_runtime.py: patch, patch_children, patch_keyed_children   *)
(***************************************************************************)

HasKeysAnyChild(new_children) ==
    \E i \in 1 .. Len(new_children) :
        new_children[i].kind = "node" /\ new_children[i].key.some

\* new_children[0] is a VNode whose key is not None
has_keys(new_children) ==
    /\ Len(new_children) > 0
    /\ ~IsStr(new_children[1])
    /\ new_children[1].kind = "node"
    /\ new_children[1].key.some

\* not isinstance(child, str) and hasattr(child, 'key') and child.key
TruthyKey(child) ==
    /\ child.kind = "node"
    /\ child.key.some
    /\ child.key.k # <<>>

RECURSIVE KeyOrder(_, _)
\* The keys of a dict filled from the children in order: each key once, in
\* the order of its first insertion.
KeyOrder(children, seen) ==
    IF children = <<>> THEN <<>>
    ELSE IF TruthyKey(Head(children)) /\ Head(children).key.k \notin seen
    THEN <<Head(children).key.k>>
         \o KeyOrder(Tail(children), seen \cup {Head(children).key.k})
    ELSE KeyOrder(Tail(children), seen)

\* old_keyed[key] = (i, child): a later child with the same key overwrites.
KeyedIndex(children, key) ==
    LET at == {i \in 1 .. Len(children) :
                  TruthyKey(children[i]) /\ children[i].key.k = key}
    IN  CHOOSE i \in at : \A j \in at : j <= i

InKeyedNever(children, key) == FALSE

InKeyed(children, key) ==
    \E i \in 1 .. Len(children) : TruthyKey(children[i]) /\ children[i].key.k = key

UsedKeysNone(new_children) == {}

\* used_keys after the first pass
UsedKeys(new_children) ==
    {new_children[i].key.k : i \in {i \in 1 .. Len(new_children) : TruthyKey(new_children[i])}}

PatchAlwaysReplace(dom, parent, old, new, index) ==
    mount(remove_node(dom, parent, old, index), parent, new)

RECURSIVE patch(_, _, _, _, _)
RECURSIVE patch_common(_, _, _, _, _, _)
RECURSIVE remove_extra(_, _, _, _, _)
RECURSIVE mount_extra(_, _, _, _)
RECURSIVE keyed_first_pass(_, _, _, _, _, _)
RECURSIVE keyed_second_pass(_, _, _, _, _)

\* for i in range(min(old_len, new_len)): patch(parent, old[i], new[i], i)
patch_common(dom, parent, old_children, new_children, i, done) ==
    IF i >= Len(old_children) \/ i >= Len(new_children) THEN R(dom, done)
    ELSE LET r == patch(dom, parent, old_children[i + 1], new_children[i + 1], i)
         IN  patch_common(r.dom, parent, old_children, new_children, i + 1,
                          Append(done, r.v))

\* for i in range(new_len, old_len): remove_node(parent, old[i], new_len)
remove_extra(dom, parent, old_children, new_len, i) ==
    IF i >= Len(old_children) THEN dom
    ELSE remove_extra(remove_node(dom, parent, old_children[i + 1], new_len),
                      parent, old_children, new_len, i + 1)

\* for i in range(old_len, new_len): mount(parent, new[i])
mount_extra(dom, parent, new_children, done) ==
    IF Len(done) >= Len(new_children) THEN R(dom, done)
    ELSE LET r == mount(dom, parent, new_children[Len(done) + 1])
         IN  mount_extra(r.dom, parent, new_children, Append(done, r.v))

\* patch_children(parent, old_children, new_children)
patch_children(dom, parent, old_children, new_children) ==
    LET r1 == patch_common(dom, parent, old_children, new_children, 0, <<>>)
        d2 == remove_extra(r1.dom, parent, old_children, Len(new_children),
                           Len(new_children))
    IN  mount_extra(d2, parent, new_children, r1.v)

\* The first pass over the new children, from new_idx on.
keyed_first_pass(dom, parent, old_children, new_children, new_idx, done) ==
    IF new_idx >= Len(new_children) THEN R(dom, done)
    ELSE LET new_child == new_children[new_idx + 1]
         IN  IF ~TruthyKey(new_child)
             THEN keyed_first_pass(dom, parent, old_children, new_children,
                                   new_idx + 1, Append(done, new_child))
             ELSE IF InKeyed(old_children, new_child.key.k)
             THEN LET old_at == KeyedIndex(old_children, new_child.key.k)
                      r == patch(dom, parent, old_children[old_at], new_child, new_idx)
                      d == IF old_at - 1 # new_idx /\ r.dom.err = "none"
                           THEN move_node(r.dom, parent, r.v.el, new_idx)
                           ELSE r.dom
                  IN  keyed_first_pass(d, parent, old_children, new_children,
                                       new_idx + 1, Append(done, r.v))
             ELSE LET r == mount(dom, parent, new_child)
                      d == IF r.dom.err = "none"
                              /\ new_idx < Len(childNodes(r.dom, parent))
                           THEN move_node(r.dom, parent, r.v.el, new_idx)
                           ELSE r.dom
                  IN  keyed_first_pass(d, parent, old_children, new_children,
                                       new_idx + 1, Append(done, r.v))

\* for key in old_keyed: if key not in used_keys: remove_node(parent, old_child, 0)
keyed_second_pass(dom, parent, old_children, keys, used) ==
    IF keys = <<>> THEN dom
    ELSE keyed_second_pass(
             IF Head(keys) \in used THEN dom
             ELSE remove_node(dom, parent,
                              old_children[KeyedIndex(old_children, Head(keys))], 0),
             parent, old_children, Tail(keys), used)

\* patch_keyed_children(parent, old_children, new_children)
patch_keyed_children(dom, parent, old_children, new_children) ==
    LET r == keyed_first_pass(dom, parent, old_children, new_children, 0, <<>>)
    IN  R(keyed_second_pass(r.dom, parent, old_children,
                            KeyOrder(old_children, {}), UsedKeys(new_children)),
          r.v)

\* patch(parent, old_vnode, new_vnode, index)
patch(dom, parent, old, new, index) ==
    IF dom.err # "none" THEN R(dom, new)
    ELSE IF old.kind = "none" /\ new.kind # "none" THEN mount(dom, parent, new)
    ELSE IF old.kind # "none" /\ new.kind = "none"
    THEN R(remove_node(dom, parent, old, index), new)
    ELSE IF old.kind = "none" /\ new.kind = "none" THEN R(dom, new)
    ELSE IF IsStr(old) /\ IsStr(new)
    THEN IF old.text # new.text
         THEN IF parent = None THEN R(Fail(dom, "AttributeError"), new)
              ELSE IF index < Len(childNodes(dom, parent))
              THEN R(setTextContent(dom, childNodes(dom, parent)[index + 1], new.text), new)
              ELSE R(dom, new)
         ELSE R(dom, new)
    ELSE IF IsStr(old) # IsStr(new) \/ old.tag # new.tag
    THEN mount(remove_node(dom, parent, old, index), parent, new)
    ELSE LET element == old.el
             d1 == patch_props(dom, element, old.props, new.props)
             r == IF has_keys(new.children)
                  THEN patch_keyed_children(d1, element, old.children, new.children)
                  ELSE patch_children(d1, element, old.children, new.children)
         IN  R(r.dom, [new EXCEPT !.el = element, !.children = r.v])

(***************************************************************************)
(* static/client_runtime.py: hydrate and rerender drive mount and patch    *)
(***************************************************************************)

\* hydrate, called once when the page has loaded: mount(root, new_vdom);
\* _current_vdom = new_vdom.
Mount(tree) ==
    /\ OnlyDom
    /\ phase = "empty"
    /\ LET r == mount(document, ROOT, tree)
       IN  /\ document' = r.dom
           /\ current_vdom' = r.v
    /\ phase' = "mounted"

\* rerender: patch(_root_element, _current_vdom, new_vdom);
\* _current_vdom = new_vdom.  The log keeps the host calls of this patch.
Rerender(tree) ==
    /\ OnlyDom
    /\ phase = "mounted"
    /\ LET r == patch([document EXCEPT !.log = <<>>], ROOT, current_vdom, tree, 0)
       IN  /\ document' = r.dom
           /\ current_vdom' = r.v
    /\ phase' = "patched"

\* None, where a component function is expected
NoComponent == "None"

\* _current_component = None, _initial_props = {}, _root_instance = None
NoSession ==
    [current_component |-> NoComponent, initial_props |-> [data |-> NoValue],
     root_instance |-> None, calls |-> <<>>, sets |-> 0, closures |-> <<>>,
     clicks |-> 0]

DomInit ==
    /\ document = EmptyDocument
    /\ current_vdom = Absent
    /\ phase = "empty"
    /\ session = NoSession

(***************************************************************************)
(* Trees a component returns: positional children                          *)
(***************************************************************************)
MaxKids == 2      \* children of the root element

PARA == <<"p">>
TX == <<"x">>
TY == <<"y">>
VA == <<"a">>

\* The children a root element may have: the two texts, an element of each
\* of two tags, and an element with a text of its own.
Kids ==
    {Text(TX), Text(TY), VNode(SPAN, <<>>, <<>>), VNode(PARA, <<>>, <<>>),
     VNode(SPAN, <<<<ID, StrVal(VA)>>>>, <<Text(TX)>>)}

RECURSIVE SeqsUpTo(_, _)
\* All sequences over S of length at most n.
SeqsUpTo(S, n) ==
    IF n = 0 THEN {<<>>}
    ELSE LET shorter == SeqsUpTo(S, n - 1)
         IN  shorter \cup {Append(q, x) : q \in shorter, x \in S}

RootProps == {<<>>, <<<<ID, StrVal(VA)>>>>}

Trees == {VNode(DIV, ps, ks) : ps \in RootProps, ks \in SeqsUpTo(Kids, MaxKids)}

PatchNext ==
    \/ \E t \in Trees : Mount(t)
    \/ \E t \in Trees : Rerender(t)

(***************************************************************************)
(* Trees a component returns: a uniquely keyed list                        *)
(***************************************************************************)
MaxKeys == 3      \* size of the key set

UL == <<"u", "l">>
LI == <<"l", "i">>
KeyNames == <<"a", "b", "c", "d", "e">>
Keys == {<<KeyNames[i]>> : i \in 1 .. MaxKeys}

\* Key sequences without repetition.
KeySeqs ==
    {q \in SeqsUpTo(Keys, MaxKeys) :
        \A i, j \in 1 .. Len(q) : q[i] = q[j] => i = j}

\* ul(li(key=k, k) for k in q)
KeyedList(q) ==
    VNode(UL, <<>>, [i \in 1 .. Len(q) |-> Keyed(LI, <<>>, <<Text(q[i])>>, q[i])])

KeyedNext ==
    \/ \E q \in KeySeqs : Mount(KeyedList(q))
    \/ \E q \in KeySeqs : Rerender(KeyedList(q))

(***************************************************************************)
(* Trees a component returns: a keyed list in which a key may be ""        *)
(***************************************************************************)
\* The keys of such a list: the empty string and single letters.
BlankKeys == {<<>>} \cup {<<KeyNames[i]>> : i \in 1 .. MaxKeys - 1}

BlankKeySeqs ==
    {q \in SeqsUpTo(BlankKeys, MaxKeys) :
        \A i, j \in 1 .. Len(q) : q[i] = q[j] => i = j}

\* ul(li(key=k) for k in q)
BlankKeyedList(q) ==
    VNode(UL, <<>>, [i \in 1 .. Len(q) |-> Keyed(LI, <<>>, <<>>, q[i])])

BlankKeyedNext ==
    \/ \E q \in BlankKeySeqs : Mount(BlankKeyedList(q))
    \/ \E q \in BlankKeySeqs : Rerender(BlankKeyedList(q))

(***************************************************************************)
(* Trees a component returns: lists that mix keyed and unkeyed children    *)
(***************************************************************************)
\* The children of such a list: items with a key, an item without, a text.
MixedKids ==
    {Keyed(LI, <<>>, <<>>, <<"a">>), Keyed(LI, <<>>, <<>>, <<"b">>),
     VNode(LI, <<>>, <<>>), Text(TX)}

MixedLists == {VNode(UL, <<>>, ks) : ks \in SeqsUpTo(MixedKids, MaxKids)}

MixedNext ==
    \/ \E t \in MixedLists : Mount(t)
    \/ \E t \in MixedLists : Rerender(t)

(***************************************************************************)
(* Trees a component returns: one element and its attribute map            *)
(***************************************************************************)
COLOR == <<"c">>
WIDTH == <<"w">>
VB == <<"b">>

\* The entries an attribute map may hold: identifiers, class names, a style
\* as a mapping or as a string, a handler or None under an on_ name, and a
\* flag given as True or as 1.
PropEntries ==
    {<<ID, StrVal(VA)>>, <<ID, StrVal(VB)>>, <<ID, NoneVal>>,
     <<CLASS, StrVal(VA)>>, <<CLASS, StrVal(VB)>>,
     <<STYLE, StyleVal(<<<<COLOR, VA>>>>)>>, <<STYLE, StyleVal(<<<<COLOR, VB>>>>)>>,
     <<STYLE, StyleVal(<<<<WIDTH, VA>>>>)>>, <<STYLE, StrVal(VA)>>,
     <<ON_CLICK, Handler(1)>>, <<ON_CLICK, Handler(2)>>, <<ON_CLICK, NoneVal>>,
     <<DISABLED, BoolVal(TRUE)>>, <<DISABLED, IntVal(1)>>}

\* Attribute maps of at most two entries, in either insertion order.
PropMaps ==
    {<<>>} \cup {<<e>> : e \in PropEntries}
           \cup {q \in {<<e, f>> : e \in PropEntries, f \in PropEntries} :
                     q[1][1] # q[2][1]}

PropTrees == {VNode(DIV, ps, <<>>) : ps \in PropMaps}

PropsNext ==
    \/ \E t \in PropTrees : Mount(t)
    \/ \E t \in PropTrees : Rerender(t)

(***************************************************************************)
(* pages/index.py, static/pages_dashboard.py: the page components          *)
(***************************************************************************)
MaxRenders == 6   \* render_component calls the runtime makes in one session

BUTTON == <<"b", "t", "n">>
KEY == <<"k", "e", "y">>
PLUS == <<"+">>

\* window.__INITIAL_PROPS__: absent or {} (no "data" entry), or with data.
EmptyProps == [data |-> NoValue]
PageProps == {EmptyProps, [data |-> 1]}

Plain(v) == [producer |-> FALSE, val |-> v]

\* What a component body hands back to render_component: the tree, with the
\* state lists and hook indexes as its use_state calls left them.  `serial`
\* tells the closures of this call apart from those of every other call.
Rendered(u, vnode) ==
    [state |-> u.state, hook_index |-> u.hook_index, vnode |-> vnode]

\* IndexPage(props): a counter and a list of todos, one li per todo with its
\* "key" among the props; the handlers are closures made by this call.
IndexPage(props, cur, st, hi, serial) ==
    LET count == use_state(cur, st, hi, Plain(0))
        todos == use_state(cur, count.state, count.hook_index, Plain(1))
        items == [k \in 1 .. todos.value |->
                     VNode(LI, <<<<KEY, StrVal(<<Digits[k + 1]>>)>>>>,
                           <<Text(TX)>>)]
    IN  Rendered(todos,
            VNode(DIV, <<>>,
                  <<VNode(PARA, <<>>, <<Text(<<Digits[count.value + 1]>>)>>),
                    VNode(BUTTON, <<<<ON_CLICK, Handler(serial)>>>>,
                          <<Text(PLUS)>>),
                    VNode(UL, <<>>, items)>>))

\* DashboardPage(props): the first slot starts from props["data"] (a default
\* when props has none), loading starts False and error None (both 0 here);
\* the last child is the error box `if error else None`.
DashboardPage(props, cur, st, hi, serial) ==
    LET initial_data == IF props.data = NoValue THEN 0 ELSE props.data
        stats == use_state(cur, st, hi, Plain(initial_data))
        loading == use_state(cur, stats.state, stats.hook_index, Plain(0))
        error == use_state(cur, loading.state, loading.hook_index, Plain(0))
    IN  Rendered(error,
            VNode(DIV, <<>>,
                  <<VNode(PARA, <<>>, <<Text(<<Digits[stats.value + 1]>>)>>),
                    VNode(BUTTON, <<<<ON_CLICK, Handler(serial)>>,
                                    <<DISABLED, BoolVal(loading.value # 0)>>>>,
                          <<Text(PLUS)>>),
                    IF error.value # 0
                    THEN VNode(DIV, <<>>, <<VNode(PARA, <<>>, <<Text(TY)>>)>>)
                    ELSE Absent>>))

\* The page components hydrate knows by name.
Components == {"IndexPage", "DashboardPage"}

\* component_fn(props)
Call(component_fn, props, cur, st, hi, serial) ==
    IF component_fn = "IndexPage" THEN IndexPage(props, cur, st, hi, serial)
    ELSE DashboardPage(props, cur, st, hi, serial)

\* render_component(component_fn, props, instance) up to the return of the
\* component body; the caller clears _current_instance.
render_component(component_fn, props, instance, st, hi, serial) ==
    Call(component_fn, props, instance, st, [hi EXCEPT ![instance] = 0], serial)

(***************************************************************************)
(* static/client_runtime.py: one page session, hydrate then re-renders     *)
(***************************************************************************)

\* The arguments of one render_component call.
RenderCall(component_fn, props, instance) ==
    [component_fn |-> component_fn, props |-> props, instance |-> instance]

\* The end of rerender(): `r` is what patch returned or how it raised.  The
\* new tree is stored when patch returned.  The handlers the component made
\* in this call are closures over the values its use_state calls returned.
Committed(sess, call, rc, r, vdom) ==
    [state |-> rc.state, hook_index |-> rc.hook_index, dom |-> r.dom,
     vdom |-> IF r.dom.err = "none" THEN r.v ELSE vdom,
     session |-> [sess EXCEPT !.calls = Append(@, call),
                              !.closures = Append(@, rc.state[call.instance])]]

\* rerender() from the return of render_component: the new tree is patched
\* against the stored one.  The log keeps the host calls of this patch.
Patched(sess, call, rc, dom, vdom) ==
    Committed(sess, call, rc,
              patch([dom EXCEPT !.log = <<>>], ROOT, vdom, rc.vnode, 0), vdom)

\* rerender() up to the return of render_component, given its arguments.
RenderedWith(sess, call, st, hi, dom, vdom) ==
    Patched(sess, call,
            render_component(call.component_fn, call.props, call.instance,
                             st, hi, Len(sess.calls) + 1),
            dom, vdom)

\* The component rerender() renders: the stored one, IndexPage when none is.
CurrentComponent(sess) ==
    IF sess.current_component = NoComponent THEN "IndexPage"
    ELSE sess.current_component

RerenderEmptyProps(sess, st, hi, dom, vdom) ==
    RenderedWith(sess,
                 RenderCall(CurrentComponent(sess), EmptyProps, sess.root_instance),
                 st, hi, dom, vdom)

\* rerender(): the component, props and instance are read from the module
\* globals.
rerender(sess, st, hi, dom, vdom) ==
    RenderedWith(sess,
                 RenderCall(CurrentComponent(sess), sess.initial_props,
                            sess.root_instance),
                 st, hi, dom, vdom)

\* What neither hydrate nor a setter called from an event handler touches.
OnlySession ==
    UNCHANGED <<ssrVars, store, frames, setters, rendered, init_count, written,
                last_ret, set_calls, cb_calls>>

\* hydrate(), called once when the page has loaded.  The globals are stored
\* before the first render; an exception in mount leaves _current_vdom and
\* the instance's schedule_update as they were.
Hydrate(name, props) ==
    /\ OnlySession
    /\ phase = "empty"
    /\ LET root_instance == 1
           rc == render_component(name, props, root_instance,
                                  [inst_state EXCEPT ![root_instance] = <<>>],
                                  hook_index, 1)
           r == mount(DetachAll(document, childNodes(document, ROOT)), ROOT,
                      rc.vnode)
       IN  /\ session' = [current_component |-> name, initial_props |-> props,
                          root_instance |-> root_instance,
                          calls |-> <<RenderCall(name, props, root_instance)>>,
                          sets |-> 0,
                          closures |-> <<rc.state[root_instance]>>,
                          clicks |-> 0]
           /\ inst_state' = rc.state
           /\ hook_index' = rc.hook_index
           /\ current_instance' = ClearInstance(current_instance)
           /\ document' = r.dom
           /\ IF r.dom.err = "none"
              THEN /\ current_vdom' = r.v
                   /\ schedule_update' =
                          [schedule_update EXCEPT ![root_instance] = "rerender"]
                   /\ phase' = "mounted"
              ELSE /\ UNCHANGED <<current_vdom, schedule_update>>
                   /\ phase' = "failed"

\* The globals and the document when rerender() has ended as `rr` tells.
Rerendered(rr) ==
    /\ inst_state' = rr.state
    /\ hook_index' = rr.hook_index
    /\ current_instance' = ClearInstance(current_instance)
    /\ document' = rr.dom
    /\ current_vdom' = rr.vdom
    /\ session' = rr.session
    /\ phase' = IF rr.dom.err = "none" THEN "patched" ELSE "failed"

\* An event handler of the mounted page calls the setter of slot idx: the
\* slot is written and, through schedule_update, rerender() runs to its end
\* before the setter returns.
HandlerSetsState(idx, new) ==
    /\ OnlySession
    /\ phase \in {"mounted", "patched"}
    /\ session.root_instance # None
    /\ idx < Len(inst_state[session.root_instance])
    /\ Len(session.calls) < MaxRenders
    /\ session.sets < MaxRenders
    /\ LET i == session.root_instance
           s == set_value(inst_state, schedule_update, i, idx, new)
           called == [session EXCEPT !.sets = @ + 1]
       IN  IF s.callback /\ schedule_update[i] = "rerender"
           THEN Rerendered(rerender(called, s.state, hook_index, document,
                                    current_vdom))
           ELSE /\ inst_state' = s.state
                /\ session' = called
                /\ UNCHANGED <<hook_index, current_instance, document,
                               current_vdom, phase>>
    /\ UNCHANGED schedule_update

\* The slots a page component has.
MaxSlots == 3

SessionNext ==
    \/ \E name \in Components, props \in PageProps : Hydrate(name, props)
    \/ \E idx \in 0 .. MaxSlots - 1, new \in Values : HandlerSetsState(idx, new)

(***************************************************************************)
(* server/app.py: the page route, before the page is hydrated              *)
(***************************************************************************)

\* route_handler: a new instance, render_component with the initial props,
\* then render_to_string on the tree.  The handlers of the tree are closures
\* of a call no client render shares.
ServePage(name, props) ==
    /\ UNCHANGED <<domVars, session, store, schedule_update, frames, setters,
                   rendered, init_count, written, last_ret, set_calls, cb_calls>>
    /\ phase = "empty"
    /\ html = NoHtml
    /\ LET inst == 2
           rc == render_component(name, props, inst,
                                  [inst_state EXCEPT ![inst] = <<>>], hook_index, 0)
       IN  /\ inst_state' = rc.state
           /\ hook_index' = rc.hook_index
           /\ current_instance' = ClearInstance(current_instance)
           /\ node' = rc.vnode
           /\ html' = Markup(rc.vnode)

\* A page is served, hydrated and used.
PagesNext ==
    \/ \E name \in Components, props \in PageProps : ServePage(name, props)
    \/ \E name \in Components, props \in PageProps : Hydrate(name, props)
    \/ \E idx \in 0 .. MaxSlots - 1, new \in Values : HandlerSetsState(idx, new)

(***************************************************************************)
(* static/client_runtime.py: hydrate, with the component body in steps     *)
(***************************************************************************)

\* The tree the component of the hook engine returns.
ShellTree == VNode(DIV, <<>>, <<Text(TX)>>)

HydrateBeginRegistered(props) ==
    /\ UNCHANGED <<ssrVars, store, document, current_vdom, inst_state, setters,
                   rendered, init_count, written, set_calls, cb_calls>>
    /\ phase = "empty"
    /\ phase' = "rendering"
    /\ session' = [session EXCEPT !.current_component = "Component",
                                  !.initial_props = props,
                                  !.root_instance = 1]
    /\ schedule_update' = [schedule_update EXCEPT ![1] = "rerender"]
    /\ current_instance' = 1
    /\ hook_index' = [hook_index EXCEPT ![1] = 0]
    /\ frames' = Append(frames, Frame(1))
    /\ last_ret' = NoReturn

\* hydrate() up to the call of the component: the globals are stored, the
\* root instance is created and render_component sets the global to it.
HydrateBegin(props) ==
    /\ UNCHANGED <<ssrVars, store, document, current_vdom, inst_state, setters,
                   rendered, init_count, written, set_calls, cb_calls,
                   schedule_update>>
    /\ phase = "empty"
    /\ phase' = "rendering"
    /\ session' = [session EXCEPT !.current_component = "Component",
                                  !.initial_props = props,
                                  !.root_instance = 1]
    /\ current_instance' = 1
    /\ hook_index' = [hook_index EXCEPT ![1] = 0]
    /\ frames' = Append(frames, Frame(1))
    /\ last_ret' = NoReturn

\* The component body returns to hydrate's render_component call.
HydrateRenderReturns == phase = "rendering" /\ RenderReturn

\* hydrate() from the return of render_component: the root is emptied, the
\* tree mounted and stored, and then the callback is registered.  An
\* exception in mount ends hydrate before the tree is stored.
HydrateFinish ==
    /\ UNCHANGED <<ssrVars, store, session, inst_state, hook_index,
                   current_instance, frames, setters, rendered, init_count,
                   written, set_calls, cb_calls>>
    /\ phase = "rendering"
    /\ frames = <<>>
    /\ rendered[1]
    /\ LET r == mount(DetachAll(document, childNodes(document, ROOT)), ROOT, ShellTree)
       IN  /\ document' = r.dom
           /\ IF r.dom.err = "none"
              THEN /\ current_vdom' = r.v
                   /\ schedule_update' = [schedule_update EXCEPT ![1] = "rerender"]
                   /\ phase' = "mounted"
              ELSE /\ UNCHANGED <<current_vdom, schedule_update>>
                   /\ phase' = "failed"
    /\ last_ret' = NoReturn

\* The component body returns to the render_component call of rerender():
\* the new tree is patched against the stored one and stored.
RerenderReturns ==
    /\ UNCHANGED <<ssrVars, store, session, inst_state, hook_index,
                   schedule_update, setters, init_count, written, set_calls,
                   cb_calls>>
    /\ phase \in {"mounted", "patched"}
    /\ frames # <<>>
    /\ Top.calls = HookCount(Top.inst)
    /\ current_instance' = ClearInstance(current_instance)
    /\ frames' = Pop(frames)
    /\ rendered' = [rendered EXCEPT ![Top.inst] = TRUE]
    /\ last_ret' = NoReturn
    /\ LET r == patch([document EXCEPT !.log = <<>>], ROOT, current_vdom, ShellTree, 0)
       IN  /\ document' = r.dom
           /\ current_vdom' = IF r.dom.err = "none" THEN r.v ELSE current_vdom
           /\ phase' = IF r.dom.err = "none" THEN "patched" ELSE "failed"

\* hydrate with a component body that calls use_state and may call the
\* setters it got, then handlers and bodies calling setters.
HydrateNext ==
    \/ \E props \in PageProps : HydrateBegin(props)
    \/ \E initial \in Initials : CallUseState(initial)
    \/ \E idx \in 0 .. MaxHooks, new \in Values : CallSetter(1, idx, new)
    \/ HydrateRenderReturns
    \/ HydrateFinish
    \/ RerenderReturns

(***************************************************************************)
(* pages/index.py: clicks on the increment button                          *)
(***************************************************************************)
MaxPasses == 9    \* render_component calls of a session with clicks

\* The button of IndexPage's tree, and the click listeners its host has.
IncrementButton(vdom) == vdom.children[2]

ClickListeners(dom, vdom) ==
    SelectSeq(dom.nodes[IncrementButton(vdom).el].listeners,
              LAMBDA l : l[1] = EventName(ON_CLICK))

\* The globals and the document, as rerender() hands them on.
Globals ==
    [state |-> inst_state, hook_index |-> hook_index, dom |-> document,
     vdom |-> current_vdom, session |-> session]

\* handle_increment(event) of the render with the serial: set_count(count + 1)
\* with the count that render saw; the setter runs rerender() to its end.
handle_increment(g, serial) ==
    LET i == g.session.root_instance
        s == set_value(g.state, schedule_update, i, 0, g.session.closures[serial][1] + 1)
        called == [g.session EXCEPT !.sets = @ + 1]
    IN  IF s.callback
        THEN rerender(called, s.state, g.hook_index, g.dom, g.vdom)
        ELSE [g EXCEPT !.state = s.state, !.session = called]

RECURSIVE DispatchNewestFirst(_, _)
DispatchNewestFirst(listeners, g) ==
    IF listeners = <<>> THEN g
    ELSE DispatchNewestFirst(SubSeq(listeners, 1, Len(listeners) - 1),
                             handle_increment(g, listeners[Len(listeners)][2]))

RECURSIVE Dispatch(_, _)
\* The browser calls the listeners the button had when the event was
\* dispatched, in the order of their attachment.
Dispatch(listeners, g) ==
    IF listeners = <<>> THEN g
    ELSE Dispatch(Tail(listeners), handle_increment(g, Head(listeners)[2]))

\* The click is counted when its dispatch is over.
Clicked(g) == [g EXCEPT !.session.clicks = @ + 1]

\* A click on the increment button of the hydrated IndexPage.
Click ==
    /\ OnlySession
    /\ phase \in {"mounted", "patched"}
    /\ session.current_component = "IndexPage"
    /\ Len(session.calls) + Len(ClickListeners(document, current_vdom)) <= MaxPasses
    /\ Rerendered(Clicked(Dispatch(ClickListeners(document, current_vdom), Globals)))
    /\ UNCHANGED schedule_update

\* Hydration of IndexPage, clicks on its button, and the handlers that set
\* the todos slot.
ClickNext ==
    \/ \E props \in PageProps : Hydrate("IndexPage", props)
    \/ Click
    \/ \E new \in Values : HandlerSetsState(1, new)

(***************************************************************************)
(* server/actions.py: the todo store behind /api/todos                     *)
(***************************************************************************)
MaxCreates == 2   \* create requests served

FirstId == 4      \* _next_id when the module is loaded

Todo(id, text, done) == [id |-> id, text |-> text, done |-> done]

\* The three todos the store starts with, by the first letter of their text.
SeedTodos ==
    <<Todo(1, <<"L">>, FALSE), Todo(2, <<"B">>, TRUE), Todo(3, <<"I">>, FALSE)>>

\* CreateTodoPayload.text: a string of at least one character.
TodoTexts == {<<"a">>}

\* The todo_id of a request: every id the store can hold, and one beyond.
TodoIds == 1 .. FirstId + MaxCreates

Ok(id) == [status |-> 200, detail |-> <<>>, id |-> id]
NOT_FOUND == <<"T", "o", "d", "o", " ", "n", "o", "t", " ", "f", "o", "u", "n", "d">>
NotFound == [status |-> 404, detail |-> NOT_FOUND, id |-> 0]
NoResponse == [status |-> 0, detail |-> <<>>, id |-> 0]

CreateIdFromLength(db, nid, text) ==
    [db |-> Append(db, Todo(Len(db) + 1, text, FALSE)), next_id |-> nid + 1,
     response |-> Ok(Len(db) + 1)]

\* create_todo(payload)
create_todo(db, nid, text) ==
    [db |-> Append(db, Todo(nid, text, FALSE)), next_id |-> nid + 1,
     response |-> Ok(nid)]

\* next((t for t in _todos_db if t["id"] == todo_id), None): the position of
\* the first todo with the id, 0 when there is none.
Find(db, todo_id) ==
    IF \E i \in 1 .. Len(db) : db[i].id = todo_id
    THEN CHOOSE i \in 1 .. Len(db) :
             /\ db[i].id = todo_id
             /\ \A j \in 1 .. i - 1 : db[j].id # todo_id
    ELSE 0

\* update_todo(todo_id, payload)
update_todo(db, todo_id, done) ==
    LET i == Find(db, todo_id)
    IN  IF i = 0 THEN [db |-> db, response |-> NotFound]
        ELSE [db |-> [db EXCEPT ![i].done = done], response |-> Ok(todo_id)]

DeleteTodoSilent(db, todo_id) ==
    [db |-> SelectSeq(db, LAMBDA t : t.id # todo_id), response |-> Ok(0)]

\* delete_todo(todo_id): the list is rebuilt without the id, then the request
\* fails when nothing was dropped.
delete_todo(db, todo_id) ==
    LET kept == SelectSeq(db, LAMBDA t : t.id # todo_id)
    IN  [db |-> kept,
         response |-> IF Len(kept) = Len(db) THEN NotFound ELSE Ok(0)]

\* list_todos()
list_todos(db) == db

\* server/app.py, line 30: `from server.actions import _todos_db` binds the
\* name in app.py to the list object the global held when app.py was loaded.
\* `imported` is that list: each entry is a dict, `shared` while the same
\* dict object is in the list the global of actions.py holds now.  `alias`
\* tells whether the two names still refer to the same list object.
Imported(todo, shared) ==
    [id |-> todo.id, text |-> todo.text, done |-> todo.done, shared |-> shared]

ImportedAll(db) == [i \in 1 .. Len(db) |-> Imported(db[i], TRUE)]

\* The dicts of the imported list with the id are no longer in the list of
\* actions.py.
Unshare(imported, todo_id) ==
    [i \in 1 .. Len(imported) |->
        IF imported[i].id = todo_id THEN [imported[i] EXCEPT !.shared = FALSE]
        ELSE imported[i]]

\* todo["done"] = payload.done on a dict that the imported list holds too.
UpdateShared(imported, todo_id, done) ==
    [i \in 1 .. Len(imported) |->
        IF imported[i].shared /\ imported[i].id = todo_id
        THEN [imported[i] EXCEPT !.done = done]
        ELSE imported[i]]

\* POST /api/todos: _todos_db.append(new_todo) changes the list in place.
CreateTodo(text) ==
    /\ OnlyStore
    /\ store.next_id < FirstId + MaxCreates
    /\ LET r == create_todo(store.todos_db, store.next_id, text)
       IN  store' = [todos_db |-> r.db, next_id |-> r.next_id,
                     response |-> r.response,
                     issued |-> Append(store.issued, r.response.id),
                     alias |-> store.alias,
                     imported |-> IF store.alias THEN ImportedAll(r.db)
                                  ELSE store.imported]

\* PUT /api/todos/{todo_id}: the dict found is changed in place.
UpdateTodo(todo_id, done) ==
    /\ OnlyStore
    /\ LET r == update_todo(store.todos_db, todo_id, done)
       IN  store' = [store EXCEPT !.todos_db = r.db, !.response = r.response,
                                  !.imported = IF r.response = NotFound THEN @
                                               ELSE UpdateShared(@, todo_id, done)]

\* DELETE /api/todos/{todo_id}: `global _todos_db` and an assignment of a new
\* list, before the length is compared.
DeleteTodo(todo_id) ==
    /\ OnlyStore
    /\ LET r == delete_todo(store.todos_db, todo_id)
       IN  store' = [store EXCEPT !.todos_db = r.db, !.response = r.response,
                                  !.alias = FALSE,
                                  !.imported = Unshare(@, todo_id)]

\* The module globals when the modules are loaded.
StoreStart ==
    [todos_db |-> SeedTodos, next_id |-> FirstId, response |-> NoResponse,
     issued |-> <<>>, alias |-> TRUE, imported |-> ImportedAll(SeedTodos)]

\* server/app.py, route_handler for /dashboard: the initial props.
DashboardData(todos) ==
    [total |-> Len(todos),
     done |-> Cardinality({i \in 1 .. Len(todos) : todos[i].done}),
     active |-> Cardinality({i \in 1 .. Len(todos) : ~todos[i].done})]

StoreInit == store = StoreStart

StoreNext ==
    \/ \E text \in TodoTexts : CreateTodo(text)
    \/ \E id \in TodoIds, done \in BOOLEAN : UpdateTodo(id, done)
    \/ \E id \in TodoIds : DeleteTodo(id)

(***************************************************************************)
(* Trees a component returns: the todo list of IndexPage and TodosPage     *)
(***************************************************************************)

\* h(tag, props, *children): VNode(tag=tag, props=props or {}, children=...);
\* the key field keeps its default, None.
h(tag, props, children) == VNode(tag, props, children)

\* li(props, *children)
li(props, children) == h(LI, props, children)

\* ul({}, *[li({"key": str(t["id"])}, t["text"]) for t in todos]), the todos
\* named by their ids.
PageList(q) ==
    h(UL, <<>>, [i \in 1 .. Len(q) |->
                    li(<<<<KEY, StrVal(q[i])>>>>, <<Text(q[i])>>)])

PageListNext ==
    \/ \E q \in KeySeqs : Mount(PageList(q))
    \/ \E q \in KeySeqs : Rerender(PageList(q))

(***************************************************************************)
(* Trees a component returns: one button and its handlers, re-rendered     *)
(* again and again                                                         *)
(***************************************************************************)
MaxListeners == 3   \* re-renders go on while the button has fewer listeners

ON_KEY == <<"o", "n", "_", "k">>

\* Handlers under two on_ names; a handler may also be given as None.
HandlerEntries ==
    {<<ON_CLICK, Handler(1)>>, <<ON_CLICK, Handler(2)>>, <<ON_CLICK, NoneVal>>,
     <<ON_KEY, Handler(1)>>}

HandlerMaps ==
    {<<>>} \cup {<<e>> : e \in HandlerEntries}
           \cup {q \in {<<e, f>> : e \in HandlerEntries, f \in HandlerEntries} :
                     q[1][1] # q[2][1]}

Buttons == {VNode(BUTTON, ps, <<>>) : ps \in HandlerMaps}

\* rerender, any number of times in one session: patch(_root_element,
\* _current_vdom, new_vdom); _current_vdom = new_vdom.  The log keeps the
\* host calls of the last patch.
RerenderAgain(tree) ==
    /\ OnlyDom
    /\ phase \in {"mounted", "patched"}
    /\ Len(document.nodes[current_vdom.el].listeners) < MaxListeners
    /\ LET r == patch([document EXCEPT !.log = <<>>], ROOT, current_vdom, tree, 0)
       IN  /\ document' = r.dom
           /\ current_vdom' = r.v
    /\ phase' = "patched"

ListenersNext ==
    \/ \E t \in Buttons : Mount(t)
    \/ \E t \in Buttons : RerenderAgain(t)

(***************************************************************************)
(* Specifications                                                          *)
(***************************************************************************)
SsrIdle ==
    /\ node = Absent
    /\ html = NoHtml

InitHooks == SsrIdle /\ DomInit /\ StoreInit /\ HookInit

InitSSR == HookInit /\ DomInit /\ StoreInit /\ SsrInit

InitAttrs == HookInit /\ DomInit /\ StoreInit /\ AttrInit

InitDom == HookInit /\ SsrIdle /\ StoreInit /\ DomInit

SpecHooks == InitHooks /\ [][HookNext]_vars

\* The hook engine with no schedule callback on any instance.
SpecServerHooks == InitHooks /\ [][HookNextServer]_vars

\* The hook engine with component bodies that may raise, no callback.
SpecRaisingHooks == InitHooks /\ [][HookNextRaising]_vars

\* The string renderer on nested trees.
SpecSSR == InitSSR /\ [][SsrNext]_vars

\* The string renderer on attribute maps.
SpecAttrs == InitAttrs /\ [][AttrNext]_vars

\* The client runtime on positional trees.
SpecPatch == InitDom /\ [][PatchNext]_vars

\* The client runtime on keyed lists.
SpecKeyed == InitDom /\ [][KeyedNext]_vars

\* One page session: hydrate, then setters called from event handlers.
SpecSession == InitDom /\ [][SessionNext]_vars

InitTags == HookInit /\ DomInit /\ StoreInit /\ TagInit

\* The string renderer on elements of every tag.
SpecTags == InitTags /\ [][TagNext]_vars

InitStore == HookInit /\ SsrIdle /\ DomInit /\ StoreInit

\* The todo store under any sequence of requests.
SpecStore == InitStore /\ [][StoreNext]_vars

\* The client runtime on the todo list as the pages build it.
SpecPageList == InitDom /\ [][PageListNext]_vars

\* The client runtime on keyed lists whose keys include the empty string.
SpecBlankKeys == InitDom /\ [][BlankKeyedNext]_vars

\* The client runtime on lists that mix keyed and unkeyed children.
SpecMixed == InitDom /\ [][MixedNext]_vars

\* The registered pages from the server's render to the client's session.
SpecPages == InitDom /\ [][PagesNext]_vars

\* hydrate step by step through the component body.
SpecHydrate == InitDom /\ [][HydrateNext]_vars

\* The page session of IndexPage with clicks on its increment button.
SpecClicks == InitDom /\ [][ClickNext]_vars

\* The client runtime on one button over many re-renders.
SpecListeners == InitDom /\ [][ListenersNext]_vars

\* The client runtime on one element's attribute maps.
SpecProps == InitDom /\ [][PropsNext]_vars

(***************************************************************************)
(* Claims about the hook engine, checked under SpecHooks                   *)
(***************************************************************************)

\* C3: hook ordering invariant.  Once a render_component call on an instance
\* has returned, and after any further renders and setter calls, the
\* instance's state list has exactly k slots, k being the number of use_state
\* calls its component makes on every render.
C3_HookOrdering ==
    \A i \in Inst : rendered[i] => Len(inst_state[i]) = HookCount(i)

\* A later render of the root instance, after a setter call, has made its k calls.
C3_Witness ==
    /\ rendered[1]
    /\ cb_calls[1] >= 1
    /\ Len(frames) = 1 /\ Top.inst = 1 /\ Top.calls = HookCount(1)

\* C4: a use_state call made while no instance is the active render context
\* raises RuntimeError, which ends every call in progress (it reaches the
\* outermost caller), and no instance's state list or hook index changes.
C4_NoContextRaises ==
    [][(current_instance = None /\ last_ret' # NoReturn)
          => /\ last_ret'.raised = "RuntimeError"
             /\ frames' = <<>>
             /\ inst_state' = inst_state
             /\ hook_index' = hook_index]_vars

\* use_state has raised after the root instance was rendered and holds state.
C4_Witness ==
    /\ last_ret.raised = "RuntimeError"
    /\ rendered[1]
    /\ Len(inst_state[1]) = HookCount(1)

\* C5 (as claimed): while a component function runs inside render_component the
\* active-instance pointer is the instance that call was given, and when no
\* render is in progress the pointer is None.
C5_PointerIsRenderingInstance ==
    /\ frames # <<>> => current_instance = Top.inst
    /\ frames = <<>> => current_instance = None

\* C6: with a schedule callback registered, every setter call invokes it once,
\* whether or not the value changes: callback invocations equal setter calls.
C6_CallbackPerSetterCall ==
    \A i \in Inst : cb_calls[i] = set_calls[i]

\* The callback has been invoked for two setter calls.
C6_Witness ==
    /\ schedule_update[1] # "none"
    /\ cb_calls[1] >= 2

\* C7: the initial value of a slot is computed at most once over the
\* instance's lifetime; later renders ignore the initial argument.
C7_InitialisedOnce ==
    \A i \in Inst : \A s \in 1 .. MaxHooks : init_count[i][s] <= 1

\* A later render of the root instance has called use_state for slot 0 again.
C7_Witness ==
    /\ rendered[1]
    /\ init_count[1][1] = 1
    /\ frames # <<>> /\ Top.inst = 1 /\ Top.calls >= 1
    /\ last_ret.inst = 1 /\ last_ret.idx = 0

\* C8: the i-th use_state call of a render reads slot i and returns the value
\* most recently written to it: the initial value, or the argument of the last
\* setter call for that slot (whichever render the setter came from).
C8_ReturnsLastWritten ==
    last_ret.inst # None =>
        /\ last_ret.value = written[last_ret.inst][last_ret.idx + 1]
        /\ frames # <<>> => last_ret.idx = Top.calls - 1

\* The counter (instance 2, one hook) renders 1 on a later render, after the
\* setter was called outside a render.
C8_Witness ==
    /\ rendered[2]
    /\ init_count[2][1] = 1
    /\ last_ret = [inst |-> 2, idx |-> 0, value |-> 1, raised |-> "none"]
    /\ Len(frames) = 1

(***************************************************************************)
(* Claims about the string renderer                                        *)
(***************************************************************************)

CountChar(s, c) == Cardinality({i \in 1 .. Len(s) : s[i] = c})

\* The places of s where the character sequence e starts.
EntityCount(s, e) ==
    Cardinality({i \in 1 .. Len(s) :
                    i + Len(e) - 1 <= Len(s) /\ SubSeq(s, i, i + Len(e) - 1) = e})

Entity(c) ==
    CASE c = "&" -> <<"&", "a", "m", "p", ";">>
      [] c = "<" -> <<"&", "l", "t", ";">>
      [] c = ">" -> <<"&", "g", "t", ";">>
      [] c = "\"" -> <<"&", "q", "u", "o", "t", ";">>
      [] c = "'" -> <<"&", "#", "x", "2", "7", ";">>

\* An attribute that is written with a value: not an event handler, not a
\* boolean, not None.
EmitsValue(k, val) == ~StartsWithOn(k) /\ val.t \notin {"bool", "none"}

RECURSIVE NodeCount(_)
RECURSIVE NodeCountAll(_)
NodeCountAll(children) ==
    IF children = <<>> THEN 0
    ELSE NodeCount(Head(children)) + NodeCountAll(Tail(children))

\* The elements of a tree.
NodeCount(n) == IF IsStr(n) THEN 0 ELSE 1 + NodeCountAll(n.children)

RECURSIVE ValuedAttrs(_)
RECURSIVE ValuedAttrsAll(_)
ValuedAttrsAll(children) ==
    IF children = <<>> THEN 0
    ELSE ValuedAttrs(Head(children)) + ValuedAttrsAll(Tail(children))

\* The attributes of a tree that are written with a value.
ValuedAttrs(n) ==
    IF IsStr(n) THEN 0
    ELSE Cardinality({i \in 1 .. Len(n.props) : EmitsValue(n.props[i][1], n.props[i][2])})
         + ValuedAttrsAll(n.children)

RECURSIVE PropsCount(_, _)
PropsCount(props, c) ==
    IF props = <<>> THEN 0
    ELSE (IF EmitsValue(Head(props)[1], Head(props)[2])
          THEN CountChar(Str(Head(props)[2]), c) ELSE 0)
         + PropsCount(Tail(props), c)

RECURSIVE InputCount(_, _)
RECURSIVE InputCountAll(_, _)
InputCountAll(children, c) ==
    IF children = <<>> THEN 0
    ELSE InputCount(Head(children), c) + InputCountAll(Tail(children), c)

\* Occurrences of character c in the text children and the written
\* attribute values of a tree.
InputCount(n, c) ==
    IF IsStr(n) THEN CountChar(n.text, c)
    ELSE PropsCount(n.props, c) + InputCountAll(n.children, c)

ExpectedAttr(k, val) ==
    IF StartsWithOn(k) THEN <<>>
    ELSE IF val.t = "bool" THEN (IF val.v THEN <<" ">> \o k ELSE <<>>)
    ELSE IF val.t = "none" THEN <<>>
    ELSE <<" ">> \o k \o <<"=", "\"">> \o esc(Str(val)) \o <<"\"">>

RECURSIVE ExpectedAttrs(_)
ExpectedAttrs(props) ==
    IF props = <<>> THEN <<>>
    ELSE ExpectedAttr(Head(props)[1], Head(props)[2]) \o ExpectedAttrs(Tail(props))

RECURSIVE Shape(_, _)
\* What a host node shows: a text's data, or an element's tag, attributes,
\* class, style and children's shapes in order.
Shape(d, id) ==
    IF d.nodes[id].kind = "text" THEN [kind |-> "text", text |-> d.nodes[id].text]
    ELSE [kind |-> "el", tag |-> d.nodes[id].tag, attrs |-> d.nodes[id].attrs,
          cls |-> d.nodes[id].cls, style |-> d.nodes[id].style,
          kids |-> [i \in 1 .. Len(d.nodes[id].kids) |-> Shape(d, d.nodes[id].kids[i])]]

\* The host children a fresh mount of the tree into an empty parent produces.
FreshMount(tree) == Shape(mount(EmptyDocument, ROOT, tree).dom, ROOT)

\* C1: after patch(parent, old, new) on a mounted old tree, the host children
\* under parent show the same tags, attributes and text, in the same order,
\* as a fresh mount of new into an empty parent.
C1_PatchMirrorsFreshMount ==
    phase = "patched" => Shape(document, ROOT) = FreshMount(current_vdom)

\* The hosts of the children of the list element, in the children's order.
ChildHosts(list) == [i \in 1 .. Len(list.children) |-> list.children[i].el]

\* C2: after patch_keyed_children on a uniquely keyed sibling list, the
\* parent's host children are exactly the hosts of the new children, in the
\* new children's order.
C2_KeyedOrder ==
    (phase = "patched" /\ has_keys(current_vdom.children))
        => childNodes(document, current_vdom.el) = ChildHosts(current_vdom)

\* The hosts that the logged calls created, and the hosts they took out of
\* their parent.
Created(log) ==
    {log[i].id : i \in {j \in 1 .. Len(log) :
                           log[j].op \in {"createElement", "createTextNode"}}}

Removed(log) ==
    {log[i].id : i \in {j \in 1 .. Len(log) : log[j].op = "remove"}}
    \cup {log[i].arg : i \in {j \in 1 .. Len(log) : log[j].op = "removeChild"}}

\* A step of rerender: the stored tree is the old one, the next stored tree
\* the new one, and the next document's log holds the host calls of the patch.
RerenderStep == phase = "mounted" /\ phase' = "patched"

BothNodes(o, n) == o.kind = "node" /\ n.kind = "node"

Min(a, b) == IF a < b THEN a ELSE b

\* The document at the moment patch_children calls patch for the pair of
\* children at position i (counted from 1) of the old and the new root node:
\* the props of the root are patched and the pairs before i are done.
DomBeforeChild(d, o, n, i) ==
    patch_common(patch_props([d EXCEPT !.log = <<>>], o.el, o.props, n.props),
                 o.el, SubSeq(o.children, 1, i - 1), SubSeq(n.children, 1, i - 1),
                 0, <<>>).dom

\* The positions at which a rerender step patches a pair of positional
\* children of the root node.
CommonPositions ==
    IF RerenderStep /\ ~has_keys(current_vdom'.children)
    THEN 1 .. Min(Len(current_vdom.children), Len(current_vdom'.children))
    ELSE {}

\* The old child at position i and its host in the mounted document.
OldChild(i) == current_vdom.children[i]
NewChild(i) == current_vdom'.children[i]
OldHost(i) == childNodes(document, current_vdom.el)[i]

\* patch(parent, old, new, i - 1) as patch_children calls it in this step.
ChildPatch(i) ==
    LET before == DomBeforeChild(document, current_vdom, current_vdom', i)
    IN  [before |-> before,
         after |-> patch([before EXCEPT !.log = <<>>], current_vdom.el,
                         OldChild(i), NewChild(i), i - 1)]

\* The new node has the old node's host, which was neither created nor
\* removed by the calls in the log.
SameHost(o, n, log) ==
    /\ n.el = o.el
    /\ n.el # None
    /\ n.el \notin Created(log)
    /\ n.el \notin Removed(log)

\* C11: patch on two Nodes with the same tag reuses the host: after the call
\* the new Node's host reference is the old Node's, and the call creates and
\* removes no host for that node.  Checked for the call on the root pair and
\* for the call patch_children makes on every pair of children.
C11_SameTagReuses ==
    [][/\ (RerenderStep /\ BothNodes(current_vdom, current_vdom')
           /\ current_vdom.tag = current_vdom'.tag)
              => SameHost(current_vdom, current_vdom', document'.log)
       /\ \A i \in CommonPositions :
              (BothNodes(OldChild(i), NewChild(i)) /\ OldChild(i).tag = NewChild(i).tag)
                  => LET c == ChildPatch(i)
                     IN  /\ SameHost(OldChild(i), c.after.v, c.after.dom.log)
                         /\ NewChild(i).el = OldChild(i).el]_vars

\* A patch has set an attribute on the host of a first child that it did not
\* create: the child's host was reused and its props patched.
C11_Witness ==
    /\ phase = "patched"
    /\ Len(current_vdom.children) > 0
    /\ current_vdom.children[1].kind = "node"
    /\ current_vdom.children[1].el # None
    /\ current_vdom.children[1].el \notin Created(document.log)
    /\ \E i \in 1 .. Len(document.log) :
           /\ document.log[i].op = "setAttribute"
           /\ document.log[i].id = current_vdom.children[1].el

\* The keys of a keyed list's children, in order and as a set.
KeysOf(list) == [i \in 1 .. Len(list.children) |-> list.children[i].key.k]

KeySet(list) == {KeysOf(list)[i] : i \in 1 .. Len(list.children)}

\* The host of the child with the key.
HostOfKey(list, k) ==
    list.children[CHOOSE i \in 1 .. Len(list.children) : list.children[i].key.k = k].el

\* A step of rerender that reconciles the children of the list by key.
KeyedStep == RerenderStep /\ has_keys(current_vdom'.children)

\* C12: a reordering of a uniquely keyed sibling list whose items keep their
\* tags creates no host and removes no host, and every new child's host
\* reference is the host of the old child with the same key.
C12_ReorderKeepsHosts ==
    [][(KeyedStep /\ KeySet(current_vdom') = KeySet(current_vdom)) =>
        /\ Created(document'.log) = {}
        /\ Removed(document'.log) = {}
        /\ \A i \in 1 .. Len(current_vdom'.children) :
               /\ current_vdom'.children[i].el # None
               /\ current_vdom'.children[i].el
                      = HostOfKey(current_vdom, current_vdom'.children[i].key.k)]_vars

\* A patch of a three-item keyed list that moved hosts and created none.
C12_Witness ==
    /\ phase = "patched"
    /\ Len(current_vdom.children) = 3
    /\ has_keys(current_vdom.children)
    /\ Created(document.log) = {}
    /\ \E i \in 1 .. Len(document.log) : document.log[i].op = "insertBefore"

\* The positions of the log at which the host is taken out of its parent.
RemovalsOf(log, host) ==
    {i \in 1 .. Len(log) :
        \/ log[i].op = "remove" /\ log[i].id = host
        \/ log[i].op = "removeChild" /\ log[i].arg = host}

\* The hosts of the old children whose key is not among the new children.
UnusedHosts(o, n) == {HostOfKey(o, k) : k \in KeySet(o) \ KeySet(n)}

\* C13: keyed reconciliation removes exactly the old keyed children whose
\* key does not occur among the new children, each exactly once, and only
\* after all new children were processed: the removals are the last calls
\* of the patch.  No host of a surviving key is removed.
C13_RemovesUnusedKeys ==
    [][KeyedStep =>
        LET log == document'.log
            gone == UnusedHosts(current_vdom, current_vdom')
        IN  /\ Removed(log) = gone
            /\ \A host \in gone : Cardinality(RemovalsOf(log, host)) = 1
            /\ \A i, j \in 1 .. Len(log) :
                   (i < j /\ log[i].op \in {"remove", "removeChild"})
                       => log[j].op \in {"remove", "removeChild"}]_vars

\* Old keys [a, b, c] against new keys [a]: one child is left and two hosts
\* were removed.
C13_Witness ==
    /\ phase = "patched"
    /\ has_keys(current_vdom.children)
    /\ Len(current_vdom.children) = 1
    /\ Cardinality(Removed(document.log)) = 2

\* The calls of the log that take a host out of its parent.
RemovalCalls(log) ==
    {i \in 1 .. Len(log) : log[i].op \in {"remove", "removeChild"}}

\* C14: for a mounted three-item keyed list, the re-render after the middle
\* item was removed performs exactly one host removal, that of the middle
\* item's host, and the first and the third item keep the host references
\* they had before (neither is remounted).
C14_MiddleItemRemoved ==
    [][(RerenderStep
        /\ Len(current_vdom.children) = 3
        /\ Len(current_vdom'.children) = 2
        /\ KeysOf(current_vdom') = <<KeysOf(current_vdom)[1], KeysOf(current_vdom)[3]>>) =>
        LET log == document'.log
        IN  /\ Cardinality(RemovalCalls(log)) = 1
            /\ Removed(log) = {current_vdom.children[2].el}
            /\ Created(log) = {}
            /\ current_vdom'.children[1].el = current_vdom.children[1].el
            /\ current_vdom'.children[2].el = current_vdom.children[3].el
            /\ childNodes(document', current_vdom'.el)
                   = <<current_vdom.children[1].el, current_vdom.children[3].el>>]_vars

\* The list with keys a, c after a patch that removed one host and moved
\* another: item b was removed from [a, b, c].
C14_Witness ==
    /\ phase = "patched"
    /\ Len(current_vdom.children) = 2
    /\ KeysOf(current_vdom) = <<<<KeyNames[1]>>, <<KeyNames[3]>>>>
    /\ Cardinality(RemovalCalls(document.log)) = 1
    /\ Len(document.nodes) = 8
    /\ current_vdom.children[1].el = 3
    /\ current_vdom.children[2].el = 7
    /\ \E i \in 1 .. Len(document.log) : document.log[i].op = "insertBefore"

Last(q) == q[Len(q)]

RECURSIVE HostsMatch(_, _, _)
\* Every Node of the subtree has a host reference to an element that the
\* logged calls created, with the Node's tag, and the element's children
\* correspond one to one and in order to the Node's children.
HostsMatch(d, v, host) ==
    IF IsStr(v)
    THEN /\ d.nodes[host].kind = "text"
         /\ d.nodes[host].text = v.text
    ELSE /\ v.el = host
         /\ host # None
         /\ host \in Created(d.log)
         /\ d.nodes[host].kind = "el"
         /\ d.nodes[host].tag = v.tag
         /\ Len(d.nodes[host].kids) = Len(v.children)
         /\ \A i \in 1 .. Len(v.children) :
                /\ d.nodes[d.nodes[host].kids[i]].parent = host
                /\ HostsMatch(d, v.children[i], d.nodes[host].kids[i])

\* mount(parent, v) on document d: what holds when it returns.
MountPost(d, parent, v) ==
    LET r == mount([d EXCEPT !.log = <<>>], parent, v)
    IN  /\ r.dom.err = "none"
        /\ childNodes(r.dom, parent) # <<>>
        /\ HostsMatch(r.dom, r.v, Last(childNodes(r.dom, parent)))
        /\ Len(childNodes(r.dom, parent)) = Len(childNodes(d, parent)) + 1
        /\ Last(childNodes(r.dom, parent)) > Len(d.nodes)

\* C16: after mount(parent, node) every Node of the subtree has a host
\* reference to a newly created element, each element's host children
\* correspond one to one and in order to the Node's children, and the root
\* element is the last child of parent.  Stated for the tree hydrate
\* mounted under the root, and for a further mount of any child tree under
\* the mounted element, whose children come first.
C16_MountAttachesHosts ==
    phase = "mounted" =>
        /\ childNodes(document, ROOT) # <<>>
        /\ HostsMatch(document, current_vdom, Last(childNodes(document, ROOT)))
        /\ \A k \in Kids : MountPost(document, current_vdom.el, k)

\* A mounted tree of two children, the first an element with a text child
\* of its own.
C16_Witness ==
    /\ phase = "mounted"
    /\ Len(current_vdom.children) = 2
    /\ current_vdom.children[1].kind = "node"
    /\ Len(current_vdom.children[1].children) = 1
    /\ current_vdom.children[1].el = 3
    /\ Len(document.nodes) >= 5

Replaces(o, n) == IsStr(o) # IsStr(n) \/ (BothNodes(o, n) /\ o.tag # n.tag)

\* C17: when old and new are of different kinds or are Nodes with different
\* tags, patch detaches the old host from the parent and mounts a freshly
\* created host subtree for new; the new Node's host reference is a newly
\* created element and never the old Node's host.
C17_ReplaceDetachesOld ==
    [][\A i \in CommonPositions :
          Replaces(OldChild(i), NewChild(i)) =>
              LET c == ChildPatch(i)
                  kids == childNodes(c.after.dom, current_vdom.el)
              IN  /\ OldHost(i) \notin {kids[j] : j \in 1 .. Len(kids)}
                  /\ kids # <<>>
                  /\ Last(kids) > Len(c.before.nodes)
                  /\ HostsMatch(c.after.dom, c.after.v, Last(kids))]_vars

(***************************************************************************)
(* Further claims about the hook engine                                    *)
(***************************************************************************)

\* C18: when the owning instance has no schedule callback registered, a
\* setter call only overwrites the slot it is bound to: no callback and no
\* render runs, and every other slot, every hook index, the renders in
\* progress and the active-instance pointer are unchanged.
C18_SetterWithoutCallback ==
    [][\A i \in Inst, idx \in 0 .. MaxHooks, new \in Values :
          (/\ schedule_update[i] = "none"
           /\ <<i, idx>> \in setters
           /\ last_ret' = NoReturn
           /\ CallSetter(i, idx, new)) =>
              /\ inst_state'[i][idx + 1] = new
              /\ \A j \in Inst :
                     /\ Len(inst_state'[j]) = Len(inst_state[j])
                     /\ \A s \in 1 .. Len(inst_state[j]) :
                            <<j, s>> # <<i, idx + 1>>
                                => inst_state'[j][s] = inst_state[j][s]
              /\ hook_index' = hook_index
              /\ current_instance' = current_instance
              /\ frames' = frames
              /\ cb_calls' = cb_calls
              /\ rendered' = rendered]_vars

\* The component of instance 2, which has no callback, has called its own
\* setter in its body after its use_state call: the render is still in
\* progress with the pointer and the hook index as use_state left them.
C18_Witness ==
    /\ schedule_update[2] = "none"
    /\ setters = {<<2, 0>>}
    /\ Len(frames) = 1
    /\ Top.inst = 2
    /\ Top.calls = 1
    /\ last_ret = NoReturn
    /\ current_instance = 2
    /\ hook_index[2] = 1
    /\ inst_state[2] = <<1>>
    /\ init_count[2][1] = 1
    /\ ~rendered[2]

\* C19: the hook index is reset to 0 at the start of every render and
\* advanced by exactly one per use_state call: while a render holds the
\* active-instance pointer, the index of its instance is the number of
\* use_state calls its body has made so far; so when a render of a component
\* that calls use_state k times is about to return, the index is k, on the
\* first render and on every later one.
C19_HookIndexPerRender ==
    frames # <<>> =>
        /\ current_instance = Top.inst => hook_index[Top.inst] = Top.calls
        /\ Top.calls = HookCount(Top.inst)
               => hook_index[Top.inst] = HookCount(Top.inst)

\* A later render of the root instance is about to return: an earlier render
\* of it has returned, every slot was initialised once, and the hook index
\* is again k.
C19_Witness ==
    /\ rendered[1]
    /\ Len(frames) = 1
    /\ Top.inst = 1
    /\ Top.calls = HookCount(1)
    /\ hook_index[1] = HookCount(1)
    /\ \A s \in 1 .. MaxHooks : init_count[1][s] = 1
    /\ schedule_update[1] = "none"
    /\ current_instance = 1

\* C20: when old and new are both text, patch creates and removes no host
\* node; if the two strings are equal it performs no host mutation at all,
\* and if they differ it replaces in place the text content of the existing
\* host text node at the child position, the host of the old text.
C20_TextPatchedInPlace ==
    [][\A i \in CommonPositions :
          (IsStr(OldChild(i)) /\ IsStr(NewChild(i))) =>
              LET c == ChildPatch(i)
                  d == c.after.dom
              IN  /\ Len(d.nodes) = Len(c.before.nodes)
                  /\ Removed(d.log) = {}
                  /\ childNodes(d, current_vdom.el) = childNodes(c.before, current_vdom.el)
                  /\ IF OldChild(i).text = NewChild(i).text
                     THEN d.log = <<>> /\ d.nodes = c.before.nodes
                     ELSE /\ d.nodes[OldHost(i)].kind = "text"
                          /\ d.nodes[OldHost(i)].text = NewChild(i).text
                          /\ \A host \in 1 .. Len(d.nodes) :
                                 host # OldHost(i) => d.nodes[host] = c.before.nodes[host]]_vars

(***************************************************************************)
(* Claims about a page session, checked under SpecSession                  *)
(***************************************************************************)

RECURSIVE Bare(_)
\* A tree without its host references: what the component returned.
Bare(v) ==
    IF v.kind # "node" THEN v
    ELSE [v EXCEPT !.el = None,
                   !.children = [k \in 1 .. Len(v.children) |-> Bare(v.children[k])]]

\* A step in which rerender() called render_component.
RerenderCalled == phase # "empty" /\ Len(session'.calls) > Len(session.calls)

\* The tree the stored component returns for the stored props from the state
\* slots the stored instance has after the step, as render number `serial`.
TreeFromSlots(serial) ==
    Call(session.current_component, session.initial_props, session.root_instance,
         inst_state', [hook_index EXCEPT ![session.root_instance] = 0],
         serial).vnode

\* C15: every re-render after hydrate calls render_component with the
\* component, the props value and the instance that hydrate stored and used
\* for the first render; no re-render changes any of the three globals; and
\* when the re-render's patch has returned, the stored tree is the tree the
\* component returns from the instance's state slots as they are then.
C15_SessionConsistent ==
    [][RerenderCalled =>
          /\ session'.current_component = session.current_component
          /\ session'.initial_props = session.initial_props
          /\ session'.root_instance = session.root_instance
          /\ Last(session'.calls) = session.calls[1]
          /\ Last(session'.calls) =
                 RenderCall(session.current_component, session.initial_props,
                            session.root_instance)
          /\ phase' = "patched" =>
                 Bare(current_vdom') = TreeFromSlots(Len(session'.calls))]_vars

\* The second re-render of an IndexPage session hydrated with data in its
\* props has completed, after both slots were written.
C15_Witness ==
    /\ phase = "patched"
    /\ Len(session.calls) = 3
    /\ session.current_component = "IndexPage"
    /\ session.initial_props = [data |-> 1]
    /\ inst_state[session.root_instance] = <<1, 0>>
    /\ current_vdom.children[3].children = <<>>

(***************************************************************************)
(* Claims about attribute maps, checked under SpecProps                    *)
(***************************************************************************)

\* The names of an attribute map.
NamesOf(props) == {props[i][1] : i \in 1 .. Len(props)}

\* The re-render of a page whose root element is reused.
PropsStep == phase = "mounted" /\ phase' = "patched"

\* The logged calls that write attribute k of host el: its attribute, the
\* class name for class, a style property for style.
Writes(log, el, k) ==
    {i \in 1 .. Len(log) :
        /\ log[i].id = el
        /\ \/ log[i].op \in {"setAttribute", "removeAttribute"} /\ log[i].name = k
           \/ log[i].op = "className" /\ k = CLASS
           \/ log[i].op = "style" /\ k = STYLE}

\* Attribute k of old is gone from host host.
Dropped(host, k, old) ==
    IF k = CLASS THEN host.cls = <<>>
    ELSE IF k = STYLE /\ Get(old, k).t = "style"
    THEN \A i \in 1 .. Len(Get(old, k).v) :
             Get(old, k).v[i][1] \notin DOMAIN host.style
    ELSE k \notin DOMAIN host.attrs

\* Host host carries val as its attribute k.
Carries(host, k, val) ==
    IF k = CLASS THEN host.cls = Str(val)
    ELSE IF k = STYLE /\ val.t = "style"
    THEN \A i \in 1 .. Len(val.v) :
             /\ val.v[i][1] \in DOMAIN host.style
             /\ host.style[val.v[i][1]] = val.v[i][2]
    ELSE k \in DOMAIN host.attrs /\ host.attrs[k] = Str(val)

\* C21: patch_props(host, old, new) on a host mounted from old: an attribute
\* (a name that is no on_ name) of old that new lacks is removed from the
\* host (class cleared, each property of a style mapping cleared); an
\* attribute of both whose values differ is set to the new value; an
\* attribute whose values are equal is not written.
C21_PatchPropsUpdatesHost ==
    [][PropsStep =>
          LET old == current_vdom.props
              new == current_vdom'.props
              el == current_vdom.el
              host == document'.nodes[el]
          IN  /\ \A k \in NamesOf(old) \ NamesOf(new) :
                     ~StartsWithOn(k) => Dropped(host, k, old)
              /\ \A k \in NamesOf(old) \cap NamesOf(new) :
                     ~StartsWithOn(k) =>
                         IF PyEq(Get(old, k), Get(new, k))
                         THEN Writes(document'.log, el, k) = {}
                         ELSE Carries(host, k, Get(new, k))]_vars

(***************************************************************************)
(* Claims about element markup, checked under SpecTags                     *)
(***************************************************************************)

\* The entries of an attribute map for which the renderer emits something.
Emitted(props) == SelectSeq(props, LAMBDA e : attr_part(e[1], e[2]) # <<>>)

RECURSIVE AttrsInOrder(_)
\* Each emitted attribute after one space, in the order of the entries.
AttrsInOrder(es) ==
    IF es = <<>> THEN <<>>
    ELSE <<" ">> \o attr_part(Head(es)[1], Head(es)[2])[1] \o AttrsInOrder(Tail(es))

RECURSIVE ChildrenInOrder(_, _)
\* The renderings of the children from position i on, concatenated.
ChildrenInOrder(children, i) ==
    IF i > Len(children) THEN <<>>
    ELSE render_to_string(children[i]) \o ChildrenInOrder(children, i + 1)

\* <div class="x">Hello</div>
HelloMarkup ==
    <<"<", "d", "i", "v", " ", "c", "l", "a", "s", "s", "=", "\"", "x", "\"", ">",
      "H", "e", "l", "l", "o", "<", "/", "d", "i", "v", ">">>

\* C22: for a Node, render_to_string yields the opening tag with the emitted
\* attributes in insertion order, then the children's renderings in child
\* order, then the closing tag of the same name, for every tag, void tags
\* included; Node("div", {class: "x"}, "Hello") gives <div class="x">Hello</div>.
C22_ElementMarkup ==
    (html.done /\ ~IsStr(node)) =>
        /\ html.out = <<"<">> \o node.tag \o AttrsInOrder(Emitted(node.props))
                          \o <<">">> \o ChildrenInOrder(node.children, 1)
                          \o <<"<", "/">> \o node.tag \o <<">">>
        /\ node = VNode(DIV, <<<<CLASS, StrVal(VX)>>>>, <<Text(HELLO)>>)
               => html.out = HelloMarkup

\* A void tag with two emitted attributes and two children has been rendered.
C22_Witness ==
    /\ html.done
    /\ node.tag = INPUT
    /\ Len(Emitted(node.props)) = 2
    /\ Len(node.children) = 2
    /\ html.out = <<"<", "i", "n", "p", "u", "t", " ", "d", "i", "s", " ",
                    "i", "d", "=", "\"", "a", "\"", ">", "H", "e", "l", "l", "o",
                    "<", "b", "r", ">", "<", "/", "b", "r", ">",
                    "<", "/", "i", "n", "p", "u", "t", ">">>

(***************************************************************************)
(* Claims about the todo store, checked under SpecStore                    *)
(***************************************************************************)

\* The ids of the todos in a list.
IdsIn(db) == {db[i].id : i \in 1 .. Len(db)}

\* C23: over any sequence of create, update and delete requests, every id
\* that create_todo returns is greater than every id assigned before it,
\* the seed ids included; the first after a reset is 4 and the next 5; no id
\* is assigned twice, also after its todo was deleted, and the ids in the
\* store are pairwise distinct.
C23_IdsNeverReused ==
    LET db == store.todos_db
        issued == store.issued
    IN  /\ \A i, j \in 1 .. Len(db) : db[i].id = db[j].id => i = j
        /\ IdsIn(db) \subseteq IdsIn(SeedTodos) \cup {issued[i] : i \in 1 .. Len(issued)}
        /\ \A i \in 1 .. Len(issued) :
               /\ \A j \in 1 .. i - 1 : issued[j] < issued[i]
               /\ \A id \in IdsIn(SeedTodos) : id < issued[i]
               /\ issued[i] < store.next_id
        /\ Len(issued) >= 1 => issued[1] = 4
        /\ Len(issued) >= 2 => issued[2] = 5

\* A second todo was created after the first created one and a seed todo
\* were deleted.
C23_Witness ==
    /\ store.issued = <<4, 5>>
    /\ IdsIn(store.todos_db) = {2, 3, 5}
    /\ store.response = Ok(5)

\* C24: an update or delete request for an id that is not in the store is
\* answered 404 "Todo not found" and leaves the list that GET /api/todos
\* returns and the next id to be assigned as they were.
C24_MissingIdRejected ==
    [][\A id \in TodoIds :
          (/\ id \notin IdsIn(store.todos_db)
           /\ \/ DeleteTodo(id)
              \/ \E done \in BOOLEAN : UpdateTodo(id, done))
          => /\ store'.response = NotFound
             /\ list_todos(store'.todos_db) = list_todos(store.todos_db)
             /\ store'.next_id = store.next_id]_vars

\* A request for a missing id was rejected after a todo was created and one
\* was deleted.
C24_Witness ==
    /\ store.response = NotFound
    /\ store.next_id = 5
    /\ Len(store.todos_db) = 3

(***************************************************************************)
(* Claims about renders that fail or nest                                  *)
(***************************************************************************)

\* C25 (as claimed): whenever no render_component call is executing the
\* active-instance pointer is None, also after a call that ended because the
\* component function raised; so a use_state call made outside any render
\* raises the context error.
C25_PointerHeldOnlyDuringRender ==
    /\ [](frames = <<>> => current_instance = None)
    /\ [][(frames = <<>> /\ last_ret' # NoReturn)
             => last_ret'.raised = "RuntimeError"]_vars

\* An inner render returns to the render that started it.
InnerReturns == Len(frames) >= 2 /\ Len(frames') = Len(frames) - 1

\* C26 (as claimed): when a render started during another render (a nested
\* render_component call, or a setter whose callback re-renders) returns,
\* the outer render has its own instance as the active instance and its own
\* hook index, and the use_state calls it makes afterwards succeed on its
\* own slots.
C26_ReentrantRender ==
    /\ [][InnerReturns =>
             LET outer == frames'[Len(frames')]
             IN  /\ current_instance' = outer.inst
                 /\ hook_index'[outer.inst] = outer.calls]_vars
    /\ [][(frames # <<>> /\ last_ret' # NoReturn)
             => /\ last_ret'.raised = "none"
                /\ last_ret'.inst = Top.inst
                /\ last_ret'.idx = Top.calls]_vars

(***************************************************************************)
(* Claims about the pages' todo list, checked under SpecPageList           *)
(***************************************************************************)

\* The "key" entries of the items of a list, in order.
PropKeysOf(list) ==
    [i \in 1 .. Len(list.children) |-> Get(list.children[i].props, KEY).v]

\* The host of the item whose "key" entry is k.
HostOfPropKey(list, k) ==
    list.children[CHOOSE i \in 1 .. Len(list.children) :
                      Get(list.children[i].props, KEY).v = k].el

\* q without its m-th element.
Dropping(q, m) == SubSeq(q, 1, m - 1) \o SubSeq(q, m + 1, Len(q))

\* The list is re-rendered with one item that is neither first nor last
\* removed.
MiddleItemDropped ==
    /\ phase = "mounted" /\ phase' = "patched"
    /\ \E m \in 2 .. Len(current_vdom.children) - 1 :
           PropKeysOf(current_vdom') = Dropping(PropKeysOf(current_vdom), m)

\* C27 (as claimed): the todo items the pages build with li and a "key"
\* entry in the attribute map are reconciled by key: patch selects keyed
\* reconciliation for the children of the ul, and after a middle item is
\* removed each remaining item has the host it had before.
C27_PageListReconciledByKey ==
    [][MiddleItemDropped =>
          /\ has_keys(current_vdom'.children)
          /\ \A i \in 1 .. Len(current_vdom'.children) :
                 LET k == PropKeysOf(current_vdom')[i]
                 IN  HostOfPropKey(current_vdom', k) = HostOfPropKey(current_vdom, k)]_vars

(***************************************************************************)
(* Further claims about a page session, checked under SpecSession          *)
(***************************************************************************)

\* The tree the stored component returns from the instance's state slots as
\* they are, as render number `serial`.
TreeNow(serial) ==
    Call(session.current_component, session.initial_props, session.root_instance,
         inst_state, [hook_index EXCEPT ![session.root_instance] = 0],
         serial).vnode

\* C28: on the hydrated client every setter call made by an event handler
\* has run one complete re-render pass before it returns: after N setter
\* calls exactly N passes have run after hydrate's render, none is still in
\* progress, and the stored tree is the one the last pass rendered from the
\* slots as the last setter call left them.
C28_PassPerSetterCall ==
    phase \in {"mounted", "patched"} =>
        /\ Len(session.calls) = 1 + session.sets
        /\ current_instance = None
        /\ document.err = "none"
        /\ Bare(current_vdom) = TreeNow(Len(session.calls))

\* Three setter calls have been made in an IndexPage session and both slots
\* differ from their initial values: the counter is 1 and the list is empty.
C28_Witness ==
    /\ phase = "patched"
    /\ session.sets = 3
    /\ session.current_component = "IndexPage"
    /\ inst_state[session.root_instance] = <<1, 0>>
    /\ Len(current_vdom.children[3].children) = 0

(***************************************************************************)
(* Claims about listeners, checked under SpecListeners                     *)
(***************************************************************************)

\* The number of listeners host el has for the event of the on_ name k.
ListenerCount(d, el, k) ==
    Cardinality({i \in 1 .. Len(d.nodes[el].listeners) :
                    d.nodes[el].listeners[i][1] = EventName(k)})

\* A re-render that reuses the button.
ButtonPatched == phase \in {"mounted", "patched"} /\ phase' = "patched"

KeyedPathTaken ==
    /\ phase = "mounted"
    /\ phase' = "patched"
    /\ has_keys(current_vdom'.children)

\* C30: whenever patch selects keyed reconciliation for a sibling list,
\* every new child that is a Node with a non-null key, the empty string
\* included, ends with a host reference attached under the parent, and that
\* host is the one of the old child with the same key when there is one.
C30_EveryKeyReconciled ==
    [][KeyedPathTaken =>
          \A i \in 1 .. Len(current_vdom'.children) :
              LET c == current_vdom'.children[i]
                  old == current_vdom.children
              IN  (c.kind = "node" /\ c.key.some) =>
                      /\ c.el # None
                      /\ document'.nodes[c.el].parent = current_vdom'.el
                      /\ \A j \in 1 .. Len(old) :
                             old[j].key = c.key => c.el = old[j].el]_vars

(***************************************************************************)
(* Claims about positional children, checked under SpecPatch               *)
(***************************************************************************)

\* A step of rerender that reconciles the children of the root node by
\* position.
PositionalStep == RerenderStep /\ ~has_keys(current_vdom'.children)

\* The document when the loop over the common positions is done, and after
\* the loop that removes the extra old children, whose calls its log holds.
AfterCommon ==
    DomBeforeChild(document, current_vdom, current_vdom',
                   Min(Len(current_vdom.children), Len(current_vdom'.children)) + 1)

AfterRemovals(before) ==
    remove_extra([before EXCEPT !.log = <<>>], current_vdom.el, current_vdom.children,
                 Len(current_vdom'.children), Len(current_vdom'.children))

\* The removal loop took out exactly the hosts of the old children from
\* position n + 1 on, and no host of a new child.
SurplusRemoved(d) ==
    /\ Removed(d.log) =
           {OldHost(i) : i \in Len(current_vdom'.children) + 1 .. Len(current_vdom.children)}
    /\ \A i \in 1 .. Len(current_vdom'.children) :
           NewChild(i).kind = "node" => NewChild(i).el \notin Removed(d.log)

\* C31: positional child patch with old length m and new length n.  When
\* m > n the removal loop, which runs after the common positions are
\* patched, removes exactly the hosts of the old children at positions
\* n .. m - 1 and never a host of a new child; when n > m the extra new
\* children are mounted in order at the end; afterwards the parent holds
\* exactly n host children.
C31_PositionalPatch ==
    [][PositionalStep =>
          LET m == Len(current_vdom.children)
              n == Len(current_vdom'.children)
              kids == childNodes(document', current_vdom'.el)
          IN  /\ document'.err = "none"
              /\ Len(kids) = n
              /\ m > n => SurplusRemoved(AfterRemovals(AfterCommon))
              /\ n > m => \A i \in m + 1 .. n :
                              HostsMatch(document', NewChild(i), kids[i])]_vars

RECURSIVE UnderRoot(_, _)
\* The host is the root host or has it among its ancestors.
UnderRoot(d, id) ==
    IF id = None THEN FALSE
    ELSE IF id = ROOT THEN TRUE
    ELSE UnderRoot(d, d.nodes[id].parent)

RECURSIVE AllAttached(_, _)
\* Every Node of the tree has a host reference to an element that is
\* attached under the root host.
AllAttached(d, v) ==
    v.kind = "node" =>
        /\ v.el # None
        /\ d.nodes[v.el].kind = "el"
        /\ UnderRoot(d, v.el)
        /\ \A i \in 1 .. Len(v.children) : AllAttached(d, v.children[i])

\* C32: host-reference consistency is preserved by every re-render: after
\* the mount and after the re-render that follows, every Node of the stored
\* tree has a host reference to an element attached under the root host.
\* Every sibling list of the trees is entirely unkeyed.
C32_StoredTreeAttached ==
    phase \in {"mounted", "patched"} => AllAttached(document, current_vdom)

(***************************************************************************)
(* Claims about clicks, checked under SpecClicks                           *)
(***************************************************************************)

\* The text the count paragraph of the stored tree shows.
CountShown == current_vdom.children[1].children[1].text

RenderBegins == Len(frames') > Len(frames)

\* C34: hydrate renders with the initial props, mounts under the root
\* host, stores the tree, and only then registers the schedule callback.  So
\* the callback is registered only when the tree is rendered, attached and
\* stored; a setter invoked during the initial render runs no callback and
\* begins no render; and no re-render begins while the stored tree is unset.
C34_HydrateOrder ==
    /\ [](schedule_update[1] # "none" =>
             /\ rendered[1]
             /\ current_vdom # Absent
             /\ phase \in {"mounted", "patched", "failed"}
             /\ phase # "failed" => AllAttached(document, current_vdom))
    /\ [][/\ phase = "rendering" => (~RenderBegins /\ cb_calls' = cb_calls)
          /\ (phase # "empty" /\ RenderBegins) => current_vdom # Absent]_vars

\* The body of the initial render has called use_state once and then the
\* setter it got; no callback ran and the render goes on.
C34_Witness ==
    /\ phase = "rendering"
    /\ Len(frames) = 1
    /\ frames[1].calls = 1
    /\ last_ret = NoReturn
    /\ Len(inst_state[1]) = 1
    /\ schedule_update[1] = "none"
    /\ cb_calls[1] = 0
    /\ current_vdom = Absent

(***************************************************************************)
(* Claims about the dashboard's statistics, checked under SpecStore        *)
(***************************************************************************)

\* C35: after any sequence of create, update and delete calls on the todo
\* store, the statistics the page route computes as initial props for
\* /dashboard (total, done, active) equal the counts of the list that
\* GET /api/todos returns at that moment.
C35_DashboardCountsStore ==
    DashboardData(store.imported) = DashboardData(list_todos(store.todos_db))

(***************************************************************************)
(* Claims about the children of the registered pages, under SpecPages      *)
(***************************************************************************)

\* C36: every child value that a registered page component returns is
\* accepted by the whole pipeline: render_component followed by
\* render_to_string on the server, and mount on the client, complete without
\* raising, also for DashboardPage with no error set, whose children hold
\* None in place of the error box.
C36_PagesAccepted ==
    /\ html.raised = "none"
    /\ phase # "failed"
    /\ document.err = "none"

(***************************************************************************)
(* Claims about the choice of the reconciliation, under SpecMixed          *)
(***************************************************************************)

\* The first element of the list is a Node with a non-null key.
FirstIsKeyed(children) ==
    /\ children # <<>>
    /\ children[1].kind = "node"
    /\ children[1].key.some

\* The document and the children after the props of the reused root are
\* patched and its children reconciled by key, or by position.
ByKey(d, o, n) ==
    patch_keyed_children(patch_props([d EXCEPT !.log = <<>>], o.el, o.props, n.props),
                         o.el, o.children, n.children)

ByPosition(d, o, n) ==
    patch_children(patch_props([d EXCEPT !.log = <<>>], o.el, o.props, n.props),
                   o.el, o.children, n.children)

\* The patch did what the reconciliation `r` does.
Did(r) == document' = r.dom /\ current_vdom'.children = r.v

\* C37: patch chooses keyed reconciliation for a same-tag node's children
\* exactly when the new children list is non-empty and its first element is
\* a Node with a non-null key, and positional reconciliation otherwise,
\* whatever the old children and the new children after the first are.
C37_ChoiceByFirstNewChild ==
    [][RerenderStep =>
          IF FirstIsKeyed(Bare(current_vdom').children)
          THEN Did(ByKey(document, current_vdom, Bare(current_vdom')))
          ELSE Did(ByPosition(document, current_vdom, Bare(current_vdom')))]_vars

\* An unkeyed list was patched to a list whose first child has no key and
\* whose second has one: by position, the second child got a new host.
C37_Witness ==
    /\ phase = "patched"
    /\ Len(current_vdom.children) = 2
    /\ current_vdom.children[1].kind = "node"
    /\ ~current_vdom.children[1].key.some
    /\ current_vdom.children[2].kind = "node"
    /\ current_vdom.children[2].key.some
    /\ current_vdom.children[2].el \in Created(document.log)
    /\ current_vdom.children[1].el \notin Created(document.log)

(***************************************************************************)
(* Claims about a re-render that returns an equal tree                     *)
(***************************************************************************)

\* The component returned a tree structurally equal to the stored one: the
\* same tags, keys, text and attribute values, with identical handlers.
EqualTreeStep == RerenderStep /\ Bare(current_vdom') = Bare(current_vdom)

\* C38: patching a mounted tree against a new tree structurally equal to
\* it makes no call on the host: nothing is created, removed or moved, no
\* attribute, class or style is written and no listener is added; each new
\* Node has the host reference of its old counterpart.
C38_EqualTreeIsNoOp ==
    [][EqualTreeStep =>
          /\ document'.log = <<>>
          /\ document'.nodes = document.nodes
          /\ current_vdom' = current_vdom]_vars

====
